---- MODULE Spec2Model ----
(***************************************************************************)
(* A model of the 3D bookmark maker: the colour quantizer and the index    *)
(* map smoother (utils/imageHelper), the mesh builder, the STL and 3MF     *)
(* generators and the binary STL writer (utils/stlHelper), and the App     *)
(* component's image pipeline and download handlers (App.tsx).             *)
(*                                                                         *)
(* Arrays of the code are 0-based; the sequences of the model are 1-based, *)
(* so code position i is sequence position i + 1.  Cluster numbers, index  *)
(* map values and vertex indices keep the code's 0-based values.           *)
(***************************************************************************)
EXTENDS Integers, Sequences, FiniteSets, TLC

VARIABLES
  \* ---- quantizeImage (one call, stepped through its phases)
  q_pc,           \* "idle" | "seed" | "lloyd" | "medoid" | "order" | "done"
  q_width,        \* ctx.canvas.width
  q_height,       \* ctx.canvas.height
  q_data,         \* the pixels of imgData.data, one RGB record per pixel
  q_centroids,    \* centroids
  q_assignments,  \* assignments (cluster number of every pixel)
  q_seen,         \* the centroids the last assignment pass measured against
  q_iter,         \* iter
  q_medoids,      \* medoids
  q_order,        \* clusterCounts after the sort: the old cluster of every new index
  q_palette,      \* the returned palette
  q_indices,      \* the returned indices
  \* ---- smoothIndices (one call, stepped pass by pass)
  s_pc,           \* "idle" | "call" | "loop" | "done"
  s_width,
  s_height,
  s_passes,
  s_indices,      \* the argument
  s_current,      \* current
  s_prev,         \* current before the last pass
  s_p,            \* p
  s_reads,        \* every position of the map read so far
  s_result,       \* the returned map
  s_ref,          \* which array indices, current and the returned map are
  \* ---- MeshBuilder (one instance)
  m_pc,           \* "idle" | "open"
  m_vertices,     \* vertices, flat
  m_triangles,    \* triangles, flat
  m_vertexMap,    \* vertexMap: its <<key, index>> entries in insertion order
  m_boxes,        \* the arguments of every addBox call so far
  \* ---- the canvas of a run: CANVAS_WIDTH and CANVAS_HEIGHT, scaled down
  c_width,
  c_height,
  \* ---- generateSTLs (one call, stepped layer by layer and row by row)
  g_pc,           \* "idle" | "layer" | "rows" | "done"
  g_indices,      \* indices
  g_settings,     \* settings: baseHeight and layerHeights
  g_c,            \* c
  g_y,            \* y
  g_result,       \* result (generateSTLs) or meshObjects (generate3MF) so far
  g_kind,         \* the generator called: "stl" (generateSTLs) | "3mf" (generate3MF)
  g_palette,      \* palette (generate3MF)
  g_doc,          \* the model document get3DModelXML returned (generate3MF)
  \* ---- App
  a_pc,           \* "idle" | "mounted"
  rawImgSrc,
  imgSrc,
  quantizedData,  \* null, or palette, indices, rawIndices
  croppedAreaPixels,
  settings,       \* settings: baseHeight, layerHeights, isTactile, smoothing
  processing,     \* processing.status
  a_readers,      \* files a FileReader is still reading
  a_crops,        \* getCroppedImg calls that have not settled: <<rawImgSrc, area>>
  a_loads,        \* images of the [imgSrc] effect whose onload has not fired
  a_last,         \* the handler or callback that ran last
  a_result,       \* what the last quantizeImage call returned, and for which image
  a_exports,      \* the exports under way: what their timer callback closed over
  a_started,      \* the number of exports started so far
  a_downloads,    \* the exports whose file was handed to the browser
  a_failed,       \* the exports that ended in the catch block
  a_idleTimers,   \* the 3-second timers of finished exports still to fire
  \* ---- writeBinarySTL (one call, stepped triangle by triangle)
  w_pc,           \* "idle" | "call" | "loop" | "done"
  w_mesh,         \* mesh
  w_buffer,       \* the bytes of buffer
  w_i,            \* i
  w_offset        \* offset

qvars == <<q_pc, q_width, q_height, q_data, q_centroids, q_assignments, q_seen,
           q_iter, q_medoids, q_order, q_palette, q_indices>>
svars == <<s_pc, s_width, s_height, s_passes, s_indices, s_current, s_prev, s_p,
           s_reads, s_result, s_ref>>
mvars == <<m_pc, m_vertices, m_triangles, m_vertexMap, m_boxes>>
cvars == <<c_width, c_height>>
gvars == <<g_pc, g_indices, g_settings, g_c, g_y, g_result, g_kind, g_palette,
           g_doc>>
avars == <<a_pc, rawImgSrc, imgSrc, quantizedData, croppedAreaPixels, settings,
           processing, a_readers, a_crops, a_loads, a_last, a_result,
           a_exports, a_started, a_downloads, a_failed, a_idleTimers>>
xvars == <<a_exports, a_started, a_downloads, a_failed, a_idleTimers>>
wvars == <<w_pc, w_mesh, w_buffer, w_i, w_offset>>
vars == <<qvars, svars, mvars, cvars, gvars, avars, wvars>>

\* null where a number is expected (an image, a crop area), and where a
\* record is.
Null == 0 - 1
NoData == [null |-> TRUE]

\* ------------------------------------------------------------------ bounds

\* The most pixels of a raster handed to quantizeImage on its own.
QMaxPixels == 4

\* The sample colours of the rasters: two mid greys, black (an
\* extreme-luminance colour) and a vivid red.
SampleColors ==
  << [r |-> 100, g |-> 100, b |-> 100],
     [r |-> 60, g |-> 60, b |-> 60],
     [r |-> 0, g |-> 0, b |-> 0],
     [r |-> 200, g |-> 40, b |-> 40] >>

Colors == {SampleColors[i] : i \in DOMAIN SampleColors}

\* ------------------------------------------------------------ small helpers

\* The array with the elements f[1], f[2], ... worked out one after the other.
RECURSIVE ArrayFrom(_, _, _)
ArrayFrom(f, i, acc) ==
  IF i > Len(f) THEN acc ELSE ArrayFrom(f, i + 1, Append(acc, f[i]))

Array(f) == ArrayFrom(f, 1, <<>>)

Max2(a, b) == IF a > b THEN a ELSE b
Min2(a, b) == IF a < b THEN a ELSE b

RECURSIVE SumSeq(_)
SumSeq(s) == IF s = <<>> THEN 0 ELSE s[1] + SumSeq(Tail(s))

\* How many positions of a sequence hold value v.
CountOf(s, v) == Cardinality({i \in DOMAIN s : s[i] = v})

\* ------------------------------------------------------------- quantizeImage

k == 4
iterations == 15
WEIGHT == 3000

getDistanceSq(c1, c2) ==
  (c1.r - c2.r) * (c1.r - c2.r) + (c1.g - c2.g) * (c1.g - c2.g)
    + (c1.b - c2.b) * (c1.b - c2.b)

\* d / max as the fraction <<d, max>>; 0 when max is 0.
getSaturation(c) ==
  LET mx == Max2(c.r, Max2(c.g, c.b))
      mn == Min2(c.r, Min2(c.g, c.b))
  IN IF mx = 0 THEN <<0, 1>> ELSE <<mx - mn, mx>>

\* Twice the bonus (1 for 0.5): lum = (0.299 r + 0.587 g + 0.114 b) / 255 below
\* 0.15 or above 0.85, both sides multiplied by 255000.
getExtremesBonus(c) ==
  LET lum == 299 * c.r + 587 * c.g + 114 * c.b
  IN IF lum * 100 < 15 * 255000 \/ lum * 100 > 85 * 255000 THEN 1 ELSE 0

\* score = distSq - saturation * WEIGHT - extremeBonus * WEIGHT, exactly, as
\* <<whole, n, d>>: whole + n / d with 0 <= n < d.
Score(c, centroid) ==
  LET sat == getSaturation(c)
      q == (sat[1] * WEIGHT) \div sat[2]
      rem == (sat[1] * WEIGHT) % sat[2]
      base == getDistanceSq(c, centroid) - getExtremesBonus(c) * (WEIGHT \div 2) - q
  IN IF rem = 0 THEN <<base, 0, sat[2]>> ELSE <<base - 1, sat[2] - rem, sat[2]>>

Infinity == <<0, 1, 0>>

\* a < b on scores, b possibly Infinity.
ScoreLess(a, b) ==
  /\ a # Infinity
  /\ \/ b = Infinity
     \/ a[1] < b[1]
     \/ a[1] = b[1] /\ a[2] * b[3] < b[2] * a[3]

\* A value of Math.random() is the fraction <<n, d>> with 0 <= n < d.
\* Math.floor(Math.random() * pixelCount)
FirstIdx(rnd, pixelCount) == (rnd[1] * pixelCount) \div rnd[2]

RECURSIVE MinDistFrom(_, _, _, _)
MinDistFrom(p, centroids, j, minDistSq) ==
  IF j > Len(centroids) THEN minDistSq
  ELSE LET d == getDistanceSq(p, centroids[j])
       IN MinDistFrom(p, centroids, j + 1,
                      IF minDistSq = -1 \/ d < minDistSq THEN d ELSE minDistSq)

\* dists: every pixel's squared distance to its nearest centroid so far
\* (-1 stands for the Infinity the loop starts from).
Dists(data, centroids) ==
  Array([i \in 1..Len(data) |-> MinDistFrom(data[i], centroids, 1, -1)])

\* let target = Math.random() * sumDistSq, as the fraction <<n, d>>.
Target(rnd, sumDistSq) == <<rnd[1] * sumDistSq, rnd[2]>>

\* The loop over target: the first i at which target - (dists[0] + ... +
\* dists[i]) <= 0; pixelCount - 1 when the threshold is never crossed.
\* Returns the 0-based pixel.
RECURSIVE TargetScan(_, _, _, _)
TargetScan(dists, target, i, cum) ==
  IF i > Len(dists) THEN Len(dists) - 1
  ELSE IF target[1] - target[2] * (cum + dists[i]) <= 0 THEN i - 1
       ELSE TargetScan(dists, target, i + 1, cum + dists[i])

NextCentroidIdx(data, centroids, target) ==
  TargetScan(Dists(data, centroids), target, 1, 0)

\* The assignment loop over j: strictly nearer wins, so the lowest cluster
\* number among the nearest.  Returns the 0-based cluster.
RECURSIVE BestFrom(_, _, _, _, _)
BestFrom(p, centroids, j, minDist, bestCluster) ==
  IF j > Len(centroids) THEN bestCluster
  ELSE LET dist == getDistanceSq(p, centroids[j])
       IN IF minDist = -1 \/ dist < minDist
          THEN BestFrom(p, centroids, j + 1, dist, j - 1)
          ELSE BestFrom(p, centroids, j + 1, minDist, bestCluster)

BestCluster(p, centroids) == BestFrom(p, centroids, 1, -1, 0)

Assign(data, centroids) ==
  Array([i \in 1..Len(data) |-> BestCluster(data[i], centroids)])

\* Math.round of sum / count for sum >= 0: halves round up.
RoundDiv(sum, count) == (2 * sum + count) \div (2 * count)

ChannelSum(data, assignments, j, ch) ==
  SumSeq([i \in 1..Len(data) |-> IF assignments[i] = j THEN data[i][ch] ELSE 0])

\* The centroid update: the rounded mean of a cluster's pixels; a cluster
\* without pixels keeps its centroid.
NewCentroids(data, assignments, centroids) ==
  Array([j \in 1..Len(centroids) |->
     LET count == CountOf(assignments, j - 1)
     IN IF count > 0
        THEN [r |-> RoundDiv(ChannelSum(data, assignments, j - 1, "r"), count),
              g |-> RoundDiv(ChannelSum(data, assignments, j - 1, "g"), count),
              b |-> RoundDiv(ChannelSum(data, assignments, j - 1, "b"), count)]
        ELSE centroids[j]])

\* The medoid loop over the pixels: a pixel replaces its cluster's medoid when
\* its score is strictly below the cluster's lowest so far.
RECURSIVE MedoidScan(_, _, _, _, _, _)
MedoidScan(data, assignments, centroids, i, minMedoidScores, medoids) ==
  IF i > Len(data) THEN medoids
  ELSE LET clusterIdx == assignments[i] + 1
           score == Score(data[i], centroids[clusterIdx])
       IN IF ScoreLess(score, minMedoidScores[clusterIdx])
          THEN MedoidScan(data, assignments, centroids, i + 1,
                          [minMedoidScores EXCEPT ![clusterIdx] = score],
                          [medoids EXCEPT ![clusterIdx] = data[i]])
          ELSE MedoidScan(data, assignments, centroids, i + 1,
                          minMedoidScores, medoids)

MedoidsEmptyBlack(data, assignments, centroids) ==
  MedoidScan(data, assignments, centroids, 1,
             [j \in 1..Len(centroids) |-> Infinity],
             [j \in 1..Len(centroids) |-> [r |-> 0, g |-> 0, b |-> 0]])

\* medoids starts as a copy of the centroids.
Medoids(data, assignments, centroids) ==
  MedoidScan(data, assignments, centroids, 1,
             [j \in 1..Len(centroids) |-> Infinity], centroids)

\* clusterCounts before the sort: <<index, count>> of every cluster.
ClusterCounts(assignments, n) ==
  Array([j \in 1..n |-> <<j - 1, CountOf(assignments, j - 1)>>])

\* Array.prototype.sort is stable: an item moves in front of the items its
\* comparator puts strictly after it, and stays behind its equals.
\* descending: (a, b) => b.count - a.count, a goes first when its count is higher.
Before(a, b, descending) == IF descending THEN a[2] > b[2] ELSE a[2] < b[2]

RECURSIVE InsertBy(_, _, _)
InsertBy(sorted, item, descending) ==
  IF sorted = <<>> THEN <<item>>
  ELSE IF Before(item, sorted[1], descending) THEN <<item>> \o sorted
       ELSE <<sorted[1]>> \o InsertBy(Tail(sorted), item, descending)

RECURSIVE StableSort(_, _)
StableSort(s, descending) ==
  IF s = <<>> THEN <<>>
  ELSE InsertBy(StableSort(SubSeq(s, 1, Len(s) - 1), descending), s[Len(s)],
                descending)

SortAscending(clusterCounts) == StableSort(clusterCounts, FALSE)

\* clusterCounts.sort((a, b) => b.count - a.count)
SortClusterCounts(clusterCounts) == StableSort(clusterCounts, TRUE)

\* The old cluster number at every new index, as the sort leaves them.
Order(assignments, n) ==
  LET sorted == SortClusterCounts(ClusterCounts(assignments, n))
  IN [newIndex \in 1..n |-> sorted[newIndex][1]]

OldToNewSwapped(order) == Array([old \in 1..Len(order) |-> order[old]])

OldToNewOneBased(order) ==
  Array([old \in 1..Len(order) |->
     CHOOSE newIndex \in 1..Len(order) : order[newIndex] = old - 1])

\* oldToNew[item.index] = newIndex
OldToNew(order) ==
  Array([old \in 1..Len(order) |->
     (CHOOSE newIndex \in 1..Len(order) : order[newIndex] = old - 1) - 1])

\* sortedPalette[newIndex] = medoids[item.index]
SortedPalette(order, medoids) ==
  Array([newIndex \in 1..Len(order) |-> medoids[order[newIndex] + 1]])

\* finalIndices[i] = oldToNew[assignments[i]]
FinalIndices(assignments, order) ==
  LET oldToNew == OldToNew(order)
  IN Array([i \in 1..Len(assignments) |-> oldToNew[assignments[i] + 1]])

\* The seeding: the first centroid is the pixel at FirstIdx, every further one
\* the pixel the target loop stops at.  rnds holds the k values Math.random()
\* returned, in call order.
RECURSIVE SeedFrom(_, _, _)
SeedFrom(data, rnds, centroids) ==
  IF Len(centroids) >= k THEN centroids
  ELSE SeedFrom(data, rnds,
         Append(centroids,
                data[NextCentroidIdx(data, centroids,
                       Target(rnds[Len(centroids) + 1],
                              SumSeq(Dists(data, centroids)))) + 1]))

Seed(data, rnds) ==
  SeedFrom(data, rnds, <<data[FirstIdx(rnds[1], Len(data)) + 1]>>)

\* One iteration of the refinement loop: the assignment pass, then the centroid
\* update.
LloydStep(data, centroids) ==
  LET assignments == Assign(data, centroids)
      updated == NewCentroids(data, assignments, centroids)
  IN [assignments |-> assignments, centroids |-> updated,
      changed |-> updated # centroids]

\* The refinement loop from iteration iter on: it ends after an iteration that
\* changed no centroid, or after `iterations` of them.
RECURSIVE LloydLoop(_, _, _, _, _)
LloydLoop(data, centroids, assignments, seen, iter) ==
  IF iter >= iterations
  THEN [centroids |-> centroids, assignments |-> assignments, seen |-> seen]
  ELSE LET step == LloydStep(data, centroids)
       IN IF step.changed
          THEN LloydLoop(data, step.centroids, step.assignments, centroids, iter + 1)
          ELSE [centroids |-> step.centroids, assignments |-> step.assignments,
                seen |-> centroids]

\* quantizeImage(ctx, 4) on the pixels `data` with the random values rnds.
Quantize(data, rnds) ==
  LET seeds == Seed(data, rnds)
      lloyd == LloydLoop(data, seeds, [i \in 1..Len(data) |-> 0], seeds, 0)
      medoids == Medoids(data, lloyd.assignments, lloyd.centroids)
      order == Order(lloyd.assignments, k)
  IN [palette |-> SortedPalette(order, medoids),
      indices |-> FinalIndices(lloyd.assignments, order)]

\* The values of Math.random() that reach every outcome of the first draw.
FirstDraws(pixelCount) == {<<i, pixelCount>> : i \in 0..(pixelCount - 1)}

\* The values of target (Math.random() * sumDistSq, below sumDistSq) that reach
\* every outcome of a target loop: 0, and for every pixel with a positive
\* distance the running sum at that pixel less a half.
TargetDraws(dists) ==
  {<<0, 1>>} \cup
  {<<2 * SumSeq(SubSeq(dists, 1, i)) - 1, 2>> :
     i \in {j \in 1..Len(dists) : dists[j] > 0}}

QIdle ==
  /\ q_pc = "idle" /\ q_width = 0 /\ q_height = 0 /\ q_data = <<>>
  /\ q_centroids = <<>> /\ q_assignments = <<>> /\ q_seen = <<>> /\ q_iter = 0
  /\ q_medoids = <<>> /\ q_order = <<>> /\ q_palette = <<>> /\ q_indices = <<>>

\* The rasters: every width and height of at least one pixel and at most
\* QMaxPixels pixels (the wider side as the width: quantizeImage uses the two
\* only through their product), every pixel one of Colors.
QInit ==
  /\ q_pc = "seed"
  /\ q_width \in 1..QMaxPixels
  /\ q_height \in 1..q_width
  /\ q_width * q_height <= QMaxPixels
  /\ q_data \in [1..(q_width * q_height) -> Colors]
  /\ q_centroids = <<>> /\ q_seen = <<>> /\ q_iter = 0
  /\ q_assignments = [i \in 1..(q_width * q_height) |-> 0]
  /\ q_medoids = <<>> /\ q_order = <<>> /\ q_palette = <<>> /\ q_indices = <<>>

\* const firstIdx = Math.floor(Math.random() * pixelCount); centroids.push(...)
QuantSeedFirst ==
  /\ q_pc = "seed" /\ q_centroids = <<>>
  /\ \E rnd \in FirstDraws(Len(q_data)) :
       q_centroids' = <<q_data[FirstIdx(rnd, Len(q_data)) + 1]>>
  /\ UNCHANGED <<q_pc, q_width, q_height, q_data, q_assignments, q_seen, q_iter,
                 q_medoids, q_order, q_palette, q_indices>>
  /\ UNCHANGED <<svars, mvars, cvars, gvars, avars, wvars>>

\* One round of the loop for (let c = 1; c < k; c++).
QuantSeedNext ==
  /\ q_pc = "seed" /\ q_centroids # <<>> /\ Len(q_centroids) < k
  /\ \E target \in TargetDraws(Dists(q_data, q_centroids)) :
       q_centroids' =
         Append(q_centroids, q_data[NextCentroidIdx(q_data, q_centroids, target) + 1])
  /\ q_pc' = IF Len(q_centroids) + 1 = k THEN "lloyd" ELSE "seed"
  /\ UNCHANGED <<q_width, q_height, q_data, q_assignments, q_seen, q_iter,
                 q_medoids, q_order, q_palette, q_indices>>
  /\ UNCHANGED <<svars, mvars, cvars, gvars, avars, wvars>>

\* One round of the loop for (let iter = 0; iter < iterations; iter++).
QuantLloyd ==
  /\ q_pc = "lloyd" /\ q_iter < iterations
  /\ LET step == LloydStep(q_data, q_centroids)
     IN /\ q_assignments' = step.assignments
        /\ q_centroids' = step.centroids
        /\ q_seen' = q_centroids
        /\ q_iter' = q_iter + 1
        /\ q_pc' = IF step.changed /\ q_iter + 1 < iterations THEN "lloyd" ELSE "medoid"
  /\ UNCHANGED <<q_width, q_height, q_data, q_medoids, q_order, q_palette, q_indices>>
  /\ UNCHANGED <<svars, mvars, cvars, gvars, avars, wvars>>

\* The medoid substitution.
QuantMedoid ==
  /\ q_pc = "medoid"
  /\ q_medoids' = Medoids(q_data, q_assignments, q_centroids)
  /\ q_pc' = "order"
  /\ UNCHANGED <<q_width, q_height, q_data, q_centroids, q_assignments, q_seen,
                 q_iter, q_order, q_palette, q_indices>>
  /\ UNCHANGED <<svars, mvars, cvars, gvars, avars, wvars>>

\* The sort by cluster size, the renumbering and the return.
QuantOrder ==
  /\ q_pc = "order"
  /\ q_order' = Order(q_assignments, k)
  /\ q_palette' = SortedPalette(Order(q_assignments, k), q_medoids)
  /\ q_indices' = FinalIndices(q_assignments, Order(q_assignments, k))
  /\ q_pc' = "done"
  /\ UNCHANGED <<q_width, q_height, q_data, q_centroids, q_assignments, q_seen,
                 q_iter, q_medoids>>
  /\ UNCHANGED <<svars, mvars, cvars, gvars, avars, wvars>>

QNext ==
  \/ QuantSeedFirst
  \/ QuantSeedNext
  \/ QuantLloyd
  \/ QuantMedoid
  \/ QuantOrder

\* ------------------------------------------------------------- smoothIndices

\* The most pixels of a map handed to smoothIndices on its own.
SMaxCells == 4
\* The highest pass count handed to smoothIndices on its own.
SMaxPasses == 2

\* undefined where a number is expected.
Undefined == 0 - 1

\* Math.max(0, Math.min(hi, v))
Clamp(v, hi) == Max2(0, Min2(hi, v))

\* The offsets (ny, nx) in the order the two loops visit them.
Offsets ==
  << <<-1, -1>>, <<-1, 0>>, <<-1, 1>>, <<0, -1>>, <<0, 0>>, <<0, 1>>,
     <<1, -1>>, <<1, 0>>, <<1, 1>> >>

SamplePosUnclampedEnd(x, y, off, width, height) ==
  Clamp(y + off[1], height) * width + Clamp(x + off[2], width)

\* curY * width + curX
SamplePos(x, y, off, width, height) ==
  Clamp(y + off[1], height - 1) * width + Clamp(x + off[2], width - 1)

\* current[pos]: a read outside a typed array yields undefined.
ReadAt(current, pos) ==
  IF pos >= 0 /\ pos < Len(current) THEN current[pos + 1] ELSE Undefined

\* counts[v]++ for the nine samples; counts is a Uint8Array(k), so an
\* increment at undefined or at a value outside 0..k-1 changes nothing.
RECURSIVE CountSamples(_, _, _, _, _, _, _)
CountSamples(current, x, y, width, height, o, counts) ==
  IF o > Len(Offsets) THEN counts
  ELSE LET v == ReadAt(current, SamplePos(x, y, Offsets[o], width, height))
       IN CountSamples(current, x, y, width, height, o + 1,
            IF v \in 0..(k - 1) THEN [counts EXCEPT ![v + 1] = @ + 1] ELSE counts)

RECURSIVE MajorityLast(_, _, _, _)
MajorityLast(counts, i, maxCount, majority) ==
  IF i > Len(counts) THEN majority
  ELSE IF counts[i] >= maxCount
       THEN MajorityLast(counts, i + 1, counts[i], i - 1)
       ELSE MajorityLast(counts, i + 1, maxCount, majority)

\* The loop "find majority" from i on: a strictly higher count takes the lead.
RECURSIVE MajorityFrom(_, _, _, _)
MajorityFrom(counts, i, maxCount, majority) ==
  IF i > Len(counts) THEN majority
  ELSE IF counts[i] > maxCount
       THEN MajorityFrom(counts, i + 1, counts[i], i - 1)
       ELSE MajorityFrom(counts, i + 1, maxCount, majority)

MajorityHighestOnTie(counts) == MajorityLast(counts, 1, -1, 0)

Majority(counts) == MajorityFrom(counts, 1, -1, 0)

\* One round of the loop over p: next, filled for y < height and x < width
\* (next is a new Uint8Array(current.length), zero elsewhere).
SmoothPass(current, width, height) ==
  Array([pos \in 1..Len(current) |->
     IF pos - 1 < width * height
     THEN Majority(CountSamples(current, (pos - 1) % width, (pos - 1) \div width,
                                width, height, 1, [v \in 1..k |-> 0]))
     ELSE 0])

\* The positions of current one pass reads.
PassReads(width, height) ==
  {SamplePos(x, y, Offsets[o], width, height) :
     x \in 0..(width - 1), y \in 0..(height - 1), o \in 1..Len(Offsets)}

SmoothLoopOnce(current, prev, width, height, p, passes) ==
  IF p >= passes THEN [current |-> current, prev |-> prev]
  ELSE [current |-> SmoothPass(current, width, height), prev |-> current]

\* The loop over p from round p on; prev is current as the last round found it.
RECURSIVE SmoothLoop(_, _, _, _, _, _)
SmoothLoop(current, prev, width, height, p, passes) ==
  IF p >= passes THEN [current |-> current, prev |-> prev]
  ELSE SmoothLoop(SmoothPass(current, width, height), current, width, height,
                  p + 1, passes)

\* smoothIndices with the map before its last pass.
SmoothRun(indices, width, height, passes) ==
  IF passes <= 0 THEN [current |-> indices, prev |-> indices]
  ELSE SmoothLoop(indices, indices, width, height, 0, passes)

smoothIndicesAtLeastOnce(indices, width, height, passes) ==
  SmoothRun(indices, width, height, Max2(passes, 1)).current

\* smoothIndices(indices, width, height, passes)
smoothIndices(indices, width, height, passes) ==
  SmoothRun(indices, width, height, passes).current

\* The arrays of a call are numbered as they are made: the argument is array
\* 1, every new Uint8Array takes the next number; 0 is no array yet.
NoArray == [indices |-> 0, current |-> 0, result |-> 0]

SIdle ==
  /\ s_pc = "idle" /\ s_width = 0 /\ s_height = 0 /\ s_passes = 0
  /\ s_indices = <<>> /\ s_current = <<>> /\ s_prev = <<>> /\ s_p = 0
  /\ s_reads = {} /\ s_result = <<>> /\ s_ref = NoArray

\* The calls: every width and height of at least one pixel and at most
\* SMaxCells pixels, every map over them with values in 0..k-1, every pass
\* count up to SMaxPasses.
SInit ==
  /\ s_pc = "call"
  /\ s_width \in 1..SMaxCells
  /\ s_height \in 1..SMaxCells
  /\ s_width * s_height <= SMaxCells
  /\ s_passes \in 0..SMaxPasses
  /\ s_indices \in [1..(s_width * s_height) -> 0..(k - 1)]
  /\ s_current = <<>> /\ s_prev = <<>> /\ s_p = 0
  /\ s_reads = {} /\ s_result = <<>>
  /\ s_ref = [NoArray EXCEPT !.indices = 1]

\* if (passes <= 0) return indices: the array returned is the argument.
SmoothReturnInput ==
  /\ s_pc = "call" /\ s_passes <= 0
  /\ s_result' = smoothIndices(s_indices, s_width, s_height, s_passes)
  /\ s_ref' = [s_ref EXCEPT !.result = s_ref.indices]
  /\ s_pc' = "done"
  /\ UNCHANGED <<s_width, s_height, s_passes, s_indices, s_current, s_prev, s_p,
                 s_reads>>
  /\ UNCHANGED <<qvars, mvars, cvars, gvars, avars, wvars>>

\* let current = new Uint8Array(indices);
SmoothCopy ==
  /\ s_pc = "call" /\ s_passes > 0
  /\ s_current' = s_indices
  /\ s_prev' = s_indices
  /\ s_p' = 0
  /\ s_reads' = 0..(Len(s_indices) - 1)
  /\ s_ref' = [s_ref EXCEPT !.current = s_ref.indices + 1]
  /\ s_pc' = "loop"
  /\ UNCHANGED <<s_width, s_height, s_passes, s_indices, s_result>>
  /\ UNCHANGED <<qvars, mvars, cvars, gvars, avars, wvars>>

\* One round of the loop for (let p = 0; p < passes; p++).
SmoothPassStep ==
  /\ s_pc = "loop" /\ s_p < s_passes
  /\ s_prev' = s_current
  /\ s_current' = SmoothPass(s_current, s_width, s_height)
  /\ s_reads' = s_reads \cup PassReads(s_width, s_height)
  /\ s_ref' = [s_ref EXCEPT !.current = @ + 1]
  /\ s_p' = s_p + 1
  /\ UNCHANGED <<s_pc, s_width, s_height, s_passes, s_indices, s_result>>
  /\ UNCHANGED <<qvars, mvars, cvars, gvars, avars, wvars>>

\* return current;
SmoothReturn ==
  /\ s_pc = "loop" /\ s_p >= s_passes
  /\ s_result' = s_current
  /\ s_ref' = [s_ref EXCEPT !.result = s_ref.current]
  /\ s_pc' = "done"
  /\ UNCHANGED <<s_width, s_height, s_passes, s_indices, s_current, s_prev, s_p,
                 s_reads>>
  /\ UNCHANGED <<qvars, mvars, cvars, gvars, avars, wvars>>

SNext ==
  \/ SmoothReturnInput
  \/ SmoothCopy
  \/ SmoothPassStep
  \/ SmoothReturn

\* --------------------------------------------------------------- MeshBuilder

\* Lengths are whole numbers of a tenth of a micrometre, ten steps below the
\* third decimal of a millimetre that the vertex key keeps.
UnitsPerMm == 10 * 1000

\* The most addBox calls made on a MeshBuilder on its own.
MMaxBoxes == 2

\* v.toFixed(3): the sign, then the magnitude rounded to thousandths, halves
\* up; a negative value keeps its sign also when it rounds to 0.000.
ToFixed3(v) ==
  LET step == UnitsPerMm \div 1000
      mag == IF v < 0 THEN -v ELSE v
  IN <<IF v < 0 THEN "-" ELSE "", (2 * mag + step) \div (2 * step)>>

VertexKeyFlat(x, y, z) == <<ToFixed3(x), ToFixed3(y)>>

\* `${x.toFixed(3)},${y.toFixed(3)},${z.toFixed(3)}`
VertexKey(x, y, z) == <<ToFixed3(x), ToFixed3(y), ToFixed3(z)>>

\* new MeshBuilder()
NewBuilder == [vertices |-> <<>>, triangles |-> <<>>, vertexMap |-> <<>>]

\* vertexMap.get(key): the index under the key, or undefined.
MapGet(vertexMap, key) ==
  IF \E e \in DOMAIN vertexMap : vertexMap[e][1] = key
  THEN vertexMap[CHOOSE e \in DOMAIN vertexMap : vertexMap[e][1] = key][2]
  ELSE Undefined

NewIndexFlat(vertices) == Len(vertices)

\* const index = this.vertices.length / 3;
NewIndex(vertices) == Len(vertices) \div 3

\* addVertex on builder b: the builder after the call and the index returned.
AddVertex(b, x, y, z) ==
  LET key == VertexKey(x, y, z)
      existing == MapGet(b.vertexMap, key)
  IN IF existing # Undefined THEN [builder |-> b, index |-> existing]
     ELSE [builder |-> [vertices |-> b.vertices \o <<x, y, z>>,
                        triangles |-> b.triangles,
                        vertexMap |-> Append(b.vertexMap,
                                             <<key, NewIndex(b.vertices)>>)],
           index |-> NewIndex(b.vertices)]

\* The corners v0..v7 in the order addBox adds them.
Corners(x, y, z, w, h, d) ==
  << <<x, y, z>>, <<x + w, y, z>>, <<x + w, y + h, z>>, <<x, y + h, z>>,
     <<x, y, z + d>>, <<x + w, y, z + d>>, <<x + w, y + h, z + d>>,
     <<x, y + h, z + d>> >>

\* The corner numbers of the 12 triangles: bottom, top, front, back, left, right.
BoxTriangles ==
  << 0, 2, 1, 0, 3, 2,  4, 5, 6, 4, 6, 7,  0, 1, 5, 0, 5, 4,
     2, 3, 7, 2, 7, 6,  0, 4, 7, 0, 7, 3,  1, 2, 6, 1, 6, 5 >>

\* The eight addVertex calls from corner i on; v collects the indices returned.
RECURSIVE AddCorners(_, _, _, _)
AddCorners(b, corners, i, v) ==
  IF i > Len(corners) THEN [builder |-> b, v |-> v]
  ELSE LET r == AddVertex(b, corners[i][1], corners[i][2], corners[i][3])
       IN AddCorners(r.builder, corners, i + 1, Append(v, r.index))

\* addBox on builder b: the builder after the call.
AddBox(b, x, y, z, w, h, d) ==
  LET r == AddCorners(b, Corners(x, y, z, w, h, d), 1, <<>>)
  IN [r.builder EXCEPT
        !.triangles = @ \o [t \in 1..Len(BoxTriangles) |-> r.v[BoxTriangles[t] + 1]]]

\* The arguments of the addBox calls made on a MeshBuilder on its own:
\* positions on and off the pixel grid of 0.125 mm, sizes of a pixel, of less
\* than a key step, and of nothing.
BoxOrigins == {0, 1250, 1252}
BoxWidths == {1250, 3}
BoxDepths == {1250, 3, 0}

MIdle ==
  /\ m_pc = "idle" /\ m_vertices = <<>> /\ m_triangles = <<>>
  /\ m_vertexMap = <<>> /\ m_boxes = <<>>

MInit ==
  /\ m_pc = "open" /\ m_vertices = <<>> /\ m_triangles = <<>>
  /\ m_vertexMap = <<>> /\ m_boxes = <<>>

MBuilder == [vertices |-> m_vertices, triangles |-> m_triangles,
             vertexMap |-> m_vertexMap]

\* builder.addBox(x, y, z, w, h, d)
MeshAddBox ==
  /\ m_pc = "open" /\ Len(m_boxes) < MMaxBoxes
  /\ \E x \in BoxOrigins, w \in BoxWidths, d \in BoxDepths :
       LET z == 0
           b == AddBox(MBuilder, x, 0, z, w, 1250, d)
       IN /\ m_vertices' = b.vertices
          /\ m_triangles' = b.triangles
          /\ m_vertexMap' = b.vertexMap
          /\ m_boxes' = Append(m_boxes, <<x, 0, z, w, 1250, d>>)
  /\ UNCHANGED m_pc
  /\ UNCHANGED <<qvars, svars, cvars, gvars, avars, wvars>>

MNext == MeshAddBox

\* -------------------------------------------------------------- generateSTLs

\* The most pixels of the canvas of a generateSTLs call.
GMaxCells == 4

BOOKMARK_WIDTH_MM == 50
BOOKMARK_HEIGHT_MM == 160

\* const scaleX = BOOKMARK_WIDTH_MM / CANVAS_WIDTH, kept to the length unit.
scaleX == (BOOKMARK_WIDTH_MM * UnitsPerMm) \div c_width

\* const scaleY = BOOKMARK_HEIGHT_MM / CANVAS_HEIGHT
scaleY == (BOOKMARK_HEIGHT_MM * UnitsPerMm) \div c_height

\* The settings a caller passes (heights in the length unit): the defaults of
\* the App, the flat mode heights, and heights the core does not validate:
\* zero, below the third decimal, negative.
SampleSettings ==
  << [baseHeight |-> 8000, layerHeights |-> <<6000, 8000, 10000, 12000>>],
     [baseHeight |-> 8000, layerHeights |-> <<2000, 2000, 2000, 2000>>],
     [baseHeight |-> 0, layerHeights |-> <<6000, 0, 4, 12000>>],
     [baseHeight |-> 2000, layerHeights |-> <<0 - 2000, 0 - 4, 0, 2000>>] >>

RECURSIVE RowRunsPerPixel(_, _, _, _, _, _)
RowRunsPerPixel(indices, c, y, x, startX, runs) ==
  IF x >= c_width THEN runs
  ELSE RowRunsPerPixel(indices, c, y, x + 1, startX,
         IF indices[y * c_width + x + 1] = c THEN Append(runs, <<x, x + 1>>)
         ELSE runs)

\* The x loop of row y from column x on: the runs <<startX, end>> of pixels
\* equal to c, in the order their boxes are added.
RECURSIVE RowRuns(_, _, _, _, _, _)
RowRuns(indices, c, y, x, startX, runs) ==
  IF x >= c_width
  THEN IF startX # 0 - 1 THEN Append(runs, <<startX, c_width>>) ELSE runs
  ELSE IF indices[y * c_width + x + 1] = c
       THEN RowRuns(indices, c, y, x + 1, IF startX = 0 - 1 THEN x ELSE startX, runs)
       ELSE IF startX # 0 - 1
            THEN RowRuns(indices, c, y, x + 1, 0 - 1, Append(runs, <<startX, x>>))
            ELSE RowRuns(indices, c, y, x + 1, startX, runs)

RunBoxUnflipped(run, y, zStart, height) ==
  << run[1] * scaleX, y * scaleY, zStart,
     (run[2] - run[1]) * scaleX, 1 * scaleY, height >>

\* The arguments of the addBox call for one run of row y.
RunBox(run, y, zStart, height) ==
  << run[1] * scaleX, (c_height - 1 - y) * scaleY, zStart,
     (run[2] - run[1]) * scaleX, 1 * scaleY, height >>

BaseBoxLayerThick(st) ==
  << 0, 0, 0, BOOKMARK_WIDTH_MM * UnitsPerMm, BOOKMARK_HEIGHT_MM * UnitsPerMm,
     st.layerHeights[1] >>

\* The arguments of the base plate's addBox call.
BaseBox(st) ==
  << 0, 0, 0, BOOKMARK_WIDTH_MM * UnitsPerMm, BOOKMARK_HEIGHT_MM * UnitsPerMm,
     st.baseHeight >>

RowBoxesStacked(indices, st, c, y) ==
  LET runs == RowRuns(indices, c, y, 0, 0 - 1, <<>>)
      below == SumSeq([j \in 1..c |-> st.layerHeights[j]])
  IN Array([r \in 1..Len(runs) |->
              RunBox(runs[r], y, st.baseHeight + below, st.layerHeights[c + 1])])

\* The addBox calls of row y of layer c.
RowBoxes(indices, st, c, y) ==
  LET runs == RowRuns(indices, c, y, 0, 0 - 1, <<>>)
  IN Array([r \in 1..Len(runs) |->
              RunBox(runs[r], y, st.baseHeight, st.layerHeights[c + 1])])

\* addBox for every entry of boxes from entry i on.
RECURSIVE AddBoxes(_, _, _)
AddBoxes(b, boxes, i) ==
  IF i > Len(boxes) THEN b
  ELSE AddBoxes(AddBox(b, boxes[i][1], boxes[i][2], boxes[i][3],
                       boxes[i][4], boxes[i][5], boxes[i][6]), boxes, i + 1)

\* A call generateSTLs(indices, settings) about to start its layer loop.
GInit ==
  /\ c_width \in 1..GMaxCells /\ c_height \in 1..GMaxCells
  /\ c_width * c_height <= GMaxCells
  /\ g_pc = "layer" /\ g_c = 0 /\ g_y = 0 /\ g_result = <<>>
  /\ g_indices \in [1..(c_width * c_height) -> 0..3]
  /\ g_settings \in {SampleSettings[i] : i \in DOMAIN SampleSettings}
  /\ g_kind \in {"stl", "3mf"}
  /\ g_palette = IF g_kind = "3mf" THEN SampleColors ELSE <<>>
  /\ g_doc = NoData

\* The head of the layer loop's body: a new builder, and for layer 0 the base
\* plate.
GenLayerStart ==
  /\ g_pc = "layer" /\ g_c < 4
  /\ LET boxes == IF g_c = 0 THEN <<BaseBox(g_settings)>> ELSE <<>>
         b == AddBoxes(NewBuilder, boxes, 1)
     IN /\ m_vertices' = b.vertices
        /\ m_triangles' = b.triangles
        /\ m_vertexMap' = b.vertexMap
        /\ m_boxes' = boxes
  /\ m_pc' = "open" /\ g_y' = 0 /\ g_pc' = "rows"
  /\ UNCHANGED <<g_indices, g_settings, g_c, g_result, g_kind, g_palette, g_doc>>
  /\ UNCHANGED <<qvars, svars, cvars, avars, wvars>>

\* One turn of the y loop.
GenRow ==
  /\ g_pc = "rows" /\ g_y < c_height
  /\ LET boxes == RowBoxes(g_indices, g_settings, g_c, g_y)
         b == AddBoxes(MBuilder, boxes, 1)
     IN /\ m_vertices' = b.vertices
        /\ m_triangles' = b.triangles
        /\ m_vertexMap' = b.vertexMap
        /\ m_boxes' = m_boxes \o boxes
  /\ g_y' = g_y + 1
  /\ UNCHANGED <<m_pc, g_pc, g_indices, g_settings, g_c, g_result, g_kind,
                 g_palette, g_doc>>
  /\ UNCHANGED <<qvars, svars, cvars, avars, wvars>>

\* builder.getData()
GetData == [vertices |-> m_vertices, triangles |-> m_triangles]

StlNameNoBase(c) == <<"Color_", c + 1, "", ".stl">>

\* The key of a layer's entry of result: "Color_1_Base.stl", `Color_${c + 1}.stl`.
StlName(c) == <<"Color_", c + 1, IF c = 0 THEN "_Base" ELSE "", ".stl">>

\* The tail of the layer loop's body in generateSTLs: the layer's entry of
\* result.
GenLayerEnd ==
  /\ g_kind = "stl"
  /\ g_pc = "rows" /\ g_y = c_height
  /\ g_result' = IF Len(GetData.triangles) > 0
                 THEN Append(g_result, [name |-> StlName(g_c), c |-> g_c,
                                        data |-> GetData])
                 ELSE g_result
  /\ g_c' = g_c + 1 /\ g_pc' = "layer"
  /\ UNCHANGED <<g_indices, g_settings, g_y, g_kind, g_palette, g_doc>>
  /\ UNCHANGED <<qvars, svars, mvars, cvars, avars, wvars>>

\* return result
GenReturn ==
  /\ g_kind = "stl"
  /\ g_pc = "layer" /\ g_c = 4
  /\ g_pc' = "done"
  /\ UNCHANGED <<g_indices, g_settings, g_c, g_y, g_result, g_kind, g_palette,
                 g_doc>>
  /\ UNCHANGED <<qvars, svars, mvars, cvars, avars, wvars>>

\* f(x) of rgbToHex for a channel x of 0..255: its two hexadecimal digits.
HexByte(x) == <<x \div 16, x % 16>>

\* rgbToHex(c): "#" and six hexadecimal digits.
rgbToHex(c) == <<"#">> \o HexByte(c.r) \o HexByte(c.g) \o HexByte(c.b)

\* The name of a layer object: `Layer_1_Base_${hex}`, `Layer_${c + 1}_${hex}`.
LayerName(c, hex) == <<"Layer_", c + 1, IF c = 0 THEN "_Base_" ELSE "_", hex>>

\* The tail of the layer loop's body in generate3MF: the layer's entry of
\* meshObjects.
Gen3MFLayerEnd ==
  /\ g_kind = "3mf"
  /\ g_pc = "rows" /\ g_y = c_height
  /\ g_result' = IF Len(GetData.vertices) > 0
                 THEN Append(g_result,
                             [id |-> g_c + 1,
                              name |-> LayerName(g_c, Tail(rgbToHex(g_palette[g_c + 1]))),
                              data |-> GetData, paletteIdx |-> g_c])
                 ELSE g_result
  /\ g_c' = g_c + 1 /\ g_pc' = "layer"
  /\ UNCHANGED <<g_indices, g_settings, g_y, g_kind, g_palette, g_doc>>
  /\ UNCHANGED <<qvars, svars, mvars, cvars, avars, wvars>>

containerId == 100
materialId == 200

\* v.toFixed(4): the sign and the magnitude in ten-thousandths.
ToFixed4(v) == <<IF v < 0 THEN "-" ELSE "", IF v < 0 THEN -v ELSE v>>

\* materialsXML: the basematerials element.
MaterialsXML(palette) ==
  [id |-> materialId,
   bases |-> Array([i \in 1..Len(palette) |->
                      [name |-> <<"Color ", i>>,
                       displaycolor |-> rgbToHex(palette[i]) \o <<15, 15>>]])]

\* verticesXML of one mesh: a vertex element for every three numbers.
VerticesXML(data) ==
  Array([i \in 1..(Len(data.vertices) \div 3) |->
           [x |-> ToFixed4(data.vertices[3 * i - 2]),
            y |-> ToFixed4(data.vertices[3 * i - 1]),
            z |-> ToFixed4(data.vertices[3 * i])]])

TrianglesXMLById(mesh) ==
  Array([i \in 1..(Len(mesh.data.triangles) \div 3) |->
           [v1 |-> mesh.data.triangles[3 * i - 2],
            v2 |-> mesh.data.triangles[3 * i - 1],
            v3 |-> mesh.data.triangles[3 * i],
            p1 |-> mesh.id]])

\* trianglesXML of one mesh: a triangle element for every three indices.
TrianglesXML(mesh) ==
  Array([i \in 1..(Len(mesh.data.triangles) \div 3) |->
           [v1 |-> mesh.data.triangles[3 * i - 2],
            v2 |-> mesh.data.triangles[3 * i - 1],
            v3 |-> mesh.data.triangles[3 * i],
            p1 |-> mesh.paletteIdx]])

ObjectXMLFirstId(mesh) ==
  [id |-> 1, pid |-> materialId, name |-> mesh.name,
   vertices |-> VerticesXML(mesh.data), triangles |-> TrianglesXML(mesh)]

\* The object element of one mesh.
ObjectXML(mesh) ==
  [id |-> mesh.id, pid |-> materialId, name |-> mesh.name,
   vertices |-> VerticesXML(mesh.data), triangles |-> TrianglesXML(mesh)]

\* get3DModelXML(meshes, palette): the resources and the build item of the
\* model document.
get3DModelXML(meshes, palette) ==
  [basematerials |-> MaterialsXML(palette),
   objects |-> Array([i \in 1..Len(meshes) |-> ObjectXML(meshes[i])]),
   assembly |-> [id |-> containerId,
                 components |-> Array([i \in 1..Len(meshes) |-> meshes[i].id])],
   build |-> <<containerId>>]

\* The model document written into the package after the layer loop.
Gen3MFReturn ==
  /\ g_kind = "3mf"
  /\ g_pc = "layer" /\ g_c = 4
  /\ g_doc' = get3DModelXML(g_result, g_palette)
  /\ g_pc' = "done"
  /\ UNCHANGED <<g_indices, g_settings, g_c, g_y, g_result, g_kind, g_palette>>
  /\ UNCHANGED <<qvars, svars, mvars, cvars, avars, wvars>>

GNext ==
  \/ GenLayerStart
  \/ GenRow
  \/ GenLayerEnd
  \/ GenReturn
  \/ Gen3MFLayerEnd
  \/ Gen3MFReturn

\* ----------------------------------------------------------------------- App

\* The most images (files, and the crops made of them) a run of the App sees.
AMaxImages == 2

\* The values Math.random() takes in a run of the App: 0 and 1/2.
RandomValues == {<<0, 2>>, <<1, 2>>}

\* The values the smoothing slider is moved to (its range is 0 to 5).
SmoothingValues == {0, 1, 2}

\* The most reads, crops and image loads under way at one time.
AMaxPending == 1

\* The crop areas the cropper reports: the whole image, and a part of it.
CropAreas == {1, 2}

Images == 1..AMaxImages

\* The pixels of the canvas of 2 x 2 that resizeImageToCanvas draws an image
\* on, as numbers of sample colours: a corner that differs from the rest, two
\* halves, and four colours.
SampleRasters ==
  << <<1, 1, 1, 3>>, <<4, 4, 2, 2>>, <<1, 2, 3, 4>> >>

\* imgData.data of the canvas for image src.
Raster(src) ==
  LET cells == SampleRasters[((src - 1) % Len(SampleRasters)) + 1]
  IN Array([p \in 1..Len(cells) |-> SampleColors[cells[p]]])

\* The data URL getCroppedImg resolves to: the image itself for the area that
\* covers it, another image for a part of it.
Crop(raw, area) == ((raw + area - 2) % AMaxImages) + 1

\* The values Math.random() takes during one quantizeImage call: one value at
\* the first draw, one at the draws of the targets.
ARands ==
  {[i \in 1..k |-> IF i = 1 THEN a ELSE b] :
     a \in RandomValues, b \in RandomValues}

\* What quantizeImage can return for every image, over the random values.
QuantizeOutcomes ==
  {[src |-> src, result |-> Quantize(Raster(src), rnds)] :
     src \in Images, rnds \in ARands}

\* The reads, crops and image loads under way.
Pending == Cardinality(a_readers) + Cardinality(a_crops) + Cardinality(a_loads)

\* The settings of useState.
DefaultSettings ==
  [baseHeight |-> 8000, layerHeights |-> <<6000, 8000, 10000, 12000>>,
   isTactile |-> FALSE, smoothing |-> 2]

\* The map the smoothing effect hands to smoothIndices.
SmoothingSourceChained(qd) == qd.indices

SmoothingSource(qd) == qd.rawIndices

\* The App after its first render, on a canvas of 2 x 2 pixels.
AInit ==
  /\ c_width = 2 /\ c_height = 2
  /\ a_pc = "mounted" /\ rawImgSrc = Null /\ imgSrc = Null
  /\ quantizedData = NoData /\ croppedAreaPixels = Null
  /\ settings = DefaultSettings /\ processing = "idle"
  /\ a_readers = {} /\ a_crops = {} /\ a_loads = {} /\ a_last = "none"
  /\ a_result = NoData
  /\ a_exports = {} /\ a_started = 0 /\ a_downloads = {} /\ a_failed = {}
  /\ a_idleTimers = 0

\* handleFileUpload with a file chosen in the upload area.
UploadFile ==
  /\ a_pc = "mounted" /\ imgSrc = Null /\ rawImgSrc = Null
  /\ Pending < AMaxPending
  /\ \E file \in Images : a_readers' = a_readers \cup {file}
  /\ a_last' = "upload"
  /\ UNCHANGED <<a_pc, rawImgSrc, imgSrc, quantizedData, croppedAreaPixels,
                 settings, processing, a_crops, a_loads, a_result>>
  /\ UNCHANGED xvars
  /\ UNCHANGED <<qvars, svars, mvars, cvars, gvars, wvars>>

\* reader.onload
ReaderOnload ==
  /\ \E file \in a_readers :
       /\ rawImgSrc' = file
       /\ a_readers' = a_readers \ {file}
  /\ imgSrc' = Null /\ quantizedData' = NoData
  /\ a_last' = "reader"
  /\ UNCHANGED <<a_pc, croppedAreaPixels, settings, processing, a_crops,
                 a_loads, a_result>>
  /\ UNCHANGED xvars
  /\ UNCHANGED <<qvars, svars, mvars, cvars, gvars, wvars>>

\* onCropComplete, called by the cropper shown while rawImgSrc is set.
OnCropComplete ==
  /\ rawImgSrc # Null
  /\ \E area \in CropAreas : croppedAreaPixels' = area /\ area # croppedAreaPixels
  /\ a_last' = "cropper"
  /\ UNCHANGED <<a_pc, rawImgSrc, imgSrc, quantizedData, settings, processing,
                 a_readers, a_crops, a_loads, a_result>>
  /\ UNCHANGED xvars
  /\ UNCHANGED <<qvars, svars, mvars, cvars, gvars, wvars>>

\* handleCropConfirm up to its await.
CropConfirm ==
  /\ rawImgSrc # Null /\ croppedAreaPixels # Null
  /\ Pending < AMaxPending
  /\ processing' = "processing"
  /\ a_crops' = a_crops \cup {<<rawImgSrc, croppedAreaPixels>>}
  /\ a_last' = "confirm"
  /\ UNCHANGED <<a_pc, rawImgSrc, imgSrc, quantizedData, croppedAreaPixels,
                 settings, a_readers, a_loads, a_result>>
  /\ UNCHANGED xvars
  /\ UNCHANGED <<qvars, svars, mvars, cvars, gvars, wvars>>

\* handleCropConfirm after its await, and the [imgSrc] effect of the render
\* that follows: a changed imgSrc starts the load of a new Image.
CropSettle ==
  /\ \E c \in a_crops :
       /\ imgSrc' = Crop(c[1], c[2])
       /\ a_crops' = a_crops \ {c}
  /\ rawImgSrc' = Null /\ processing' = "idle"
  /\ a_loads' = IF imgSrc' # imgSrc THEN a_loads \cup {imgSrc'} ELSE a_loads
  /\ a_last' = "crop"
  /\ UNCHANGED <<a_pc, quantizedData, croppedAreaPixels, settings, a_readers,
                 a_result>>
  /\ UNCHANGED xvars
  /\ UNCHANGED <<qvars, svars, mvars, cvars, gvars, wvars>>

\* handleReset, on the button shown while imgSrc is set.
Reset ==
  /\ imgSrc # Null
  /\ rawImgSrc' = Null /\ imgSrc' = Null /\ quantizedData' = NoData
  /\ processing' = "idle"
  /\ a_last' = "reset"
  /\ UNCHANGED <<a_pc, croppedAreaPixels, settings, a_readers, a_crops,
                 a_loads, a_result>>
  /\ UNCHANGED xvars
  /\ UNCHANGED <<qvars, svars, mvars, cvars, gvars, wvars>>

\* The Adjust Crop button, shown while imgSrc is set.
AdjustCrop ==
  /\ imgSrc # Null
  /\ rawImgSrc' = imgSrc /\ imgSrc' = Null
  /\ a_last' = "adjust"
  /\ UNCHANGED <<a_pc, quantizedData, croppedAreaPixels, settings, processing,
                 a_readers, a_crops, a_loads, a_result>>
  /\ UNCHANGED xvars
  /\ UNCHANGED <<qvars, svars, mvars, cvars, gvars, wvars>>

\* img.onload of the [imgSrc] effect.
ImageOnload ==
  /\ \E src \in a_loads : \E outcome \in QuantizeOutcomes :
       LET result == outcome.result
       IN /\ outcome.src = src
          /\ quantizedData' = [palette |-> result.palette,
                               indices |-> result.indices,
                               rawIndices |-> result.indices]
          /\ a_result' = [src |-> src, palette |-> result.palette,
                          indices |-> result.indices]
          /\ a_loads' = a_loads \ {src}
  /\ a_last' = "load"
  /\ UNCHANGED <<a_pc, rawImgSrc, imgSrc, croppedAreaPixels, settings,
                 processing, a_readers, a_crops>>
  /\ UNCHANGED xvars
  /\ UNCHANGED <<qvars, svars, mvars, cvars, gvars, wvars>>

SetSmoothingInPlace ==
  /\ a_pc = "mounted"
  /\ \E v \in SmoothingValues :
       /\ v # settings.smoothing
       /\ settings' = [settings EXCEPT !.smoothing = v]
       /\ quantizedData' =
            IF quantizedData # NoData
            THEN LET smoothed == smoothIndices(SmoothingSource(quantizedData),
                                               c_width, c_height, v)
                 IN [quantizedData EXCEPT !.indices = smoothed,
                                          !.rawIndices = smoothed]
            ELSE quantizedData
  /\ a_last' = "smoothing"
  /\ UNCHANGED <<a_pc, rawImgSrc, imgSrc, croppedAreaPixels, processing,
                 a_readers, a_crops, a_loads, a_result>>
  /\ UNCHANGED xvars
  /\ UNCHANGED <<qvars, svars, mvars, cvars, gvars, wvars>>

\* The smoothing slider's onChange with a new value, and the
\* [settings.smoothing] effect of the render that follows.
SetSmoothing ==
  /\ a_pc = "mounted"
  /\ \E v \in SmoothingValues :
       /\ v # settings.smoothing
       /\ settings' = [settings EXCEPT !.smoothing = v]
       /\ quantizedData' =
            IF quantizedData # NoData
            THEN [quantizedData EXCEPT
                    !.indices = smoothIndices(SmoothingSource(quantizedData),
                                              c_width, c_height, v)]
            ELSE quantizedData
  /\ a_last' = "smoothing"
  /\ UNCHANGED <<a_pc, rawImgSrc, imgSrc, croppedAreaPixels, processing,
                 a_readers, a_crops, a_loads, a_result>>
  /\ UNCHANGED xvars
  /\ UNCHANGED <<qvars, svars, mvars, cvars, gvars, wvars>>

\* The catch block of handleCropConfirm: getCroppedImg has thrown ('No 2d
\* context').
CropFail ==
  /\ \E c \in a_crops : a_crops' = a_crops \ {c}
  /\ processing' = "error"
  /\ a_last' = "crop_failed"
  /\ UNCHANGED <<a_pc, rawImgSrc, imgSrc, quantizedData, croppedAreaPixels,
                 settings, a_readers, a_loads, a_result>>
  /\ UNCHANGED xvars
  /\ UNCHANGED <<qvars, svars, mvars, cvars, gvars, wvars>>

\* img.onload of the [imgSrc] effect when canvas.getContext('2d') gives
\* null: if(!ctx) return.
ImageOnloadNoContext ==
  /\ \E src \in a_loads : a_loads' = a_loads \ {src}
  /\ a_last' = "load_no_context"
  /\ UNCHANGED <<a_pc, rawImgSrc, imgSrc, quantizedData, croppedAreaPixels,
                 settings, processing, a_readers, a_crops, a_result>>
  /\ UNCHANGED xvars
  /\ UNCHANGED <<qvars, svars, mvars, cvars, gvars, wvars>>

\* The most exports started in a run of the App.
AMaxExports == 2

\* The slots whose height slider is moved, and the value it is moved to (the
\* sliders go from 0.2 to 3.0).
HeightSlots == {0, 3}
HeightValues == {30000}

\* The Flat and Tactile buttons.
SetTactile ==
  /\ a_pc = "mounted"
  /\ \E b \in BOOLEAN :
       /\ b # settings.isTactile
       /\ settings' = [settings EXCEPT !.isTactile = b]
  /\ a_last' = "settings"
  /\ UNCHANGED <<a_pc, rawImgSrc, imgSrc, quantizedData, croppedAreaPixels,
                 processing, a_readers, a_crops, a_loads, a_result>>
  /\ UNCHANGED xvars
  /\ UNCHANGED <<qvars, svars, mvars, cvars, gvars, wvars>>

\* updateLayerHeight(idx, val), on the sliders shown in tactile mode.
UpdateLayerHeight ==
  /\ a_pc = "mounted" /\ settings.isTactile
  /\ \E idx \in HeightSlots, val \in HeightValues :
       /\ val # settings.layerHeights[idx + 1]
       /\ settings' = [settings EXCEPT !.layerHeights[idx + 1] = val]
  /\ a_last' = "settings"
  /\ UNCHANGED <<a_pc, rawImgSrc, imgSrc, quantizedData, croppedAreaPixels,
                 processing, a_readers, a_crops, a_loads, a_result>>
  /\ UNCHANGED xvars
  /\ UNCHANGED <<qvars, svars, mvars, cvars, gvars, wvars>>

\* What a download handler leaves behind for its timer callback: the values
\* of the render the handler belongs to.
ExportOf(kind) ==
  [id |-> a_started + 1, kind |-> kind, stage |-> "timer",
   settings |-> settings, quantizedData |-> quantizedData, imgSrc |-> imgSrc,
   call |-> NoData]

\* handleDownload3MF, on the button enabled while quantizedData is set and
\* the status is idle.
Download3MF ==
  /\ a_pc = "mounted" /\ quantizedData # NoData /\ processing = "idle"
  /\ imgSrc # Null
  /\ a_started < AMaxExports
  /\ processing' = "generating_stl"
  /\ a_exports' = a_exports \cup {ExportOf("3mf")}
  /\ a_started' = a_started + 1
  /\ a_last' = "download"
  /\ UNCHANGED <<a_pc, rawImgSrc, imgSrc, quantizedData, croppedAreaPixels,
                 settings, a_readers, a_crops, a_loads, a_result>>
  /\ UNCHANGED <<a_downloads, a_failed, a_idleTimers>>
  /\ UNCHANGED <<qvars, svars, mvars, cvars, gvars, wvars>>

\* handleDownloadSTL
DownloadSTL ==
  /\ a_pc = "mounted" /\ quantizedData # NoData /\ processing = "idle"
  /\ a_started < AMaxExports
  /\ processing' = "generating_stl"
  /\ a_exports' = a_exports \cup {ExportOf("stl")}
  /\ a_started' = a_started + 1
  /\ a_last' = "download"
  /\ UNCHANGED <<a_pc, rawImgSrc, imgSrc, quantizedData, croppedAreaPixels,
                 settings, a_readers, a_crops, a_loads, a_result>>
  /\ UNCHANGED <<a_downloads, a_failed, a_idleTimers>>
  /\ UNCHANGED <<qvars, svars, mvars, cvars, gvars, wvars>>

EffectiveSettingsAsEntered(st) == st

\* effectiveSettings
EffectiveSettings(st) ==
  IF ~st.isTactile
  THEN [st EXCEPT !.layerHeights = <<2000, 2000, 2000, 2000>>]
  ELSE st

\* thumbnailData: the preview canvas, which is there while imgSrc is set, or
\* else the imgSrc of the handler's render.
ThumbnailData(e) ==
  IF imgSrc # Null THEN [canvas |-> TRUE] ELSE [src |-> e.imgSrc]

\* The arguments of the generator call of an export.
GeneratorCall(e) ==
  IF e.kind = "3mf"
  THEN [indices |-> e.quantizedData.indices,
        settings |-> EffectiveSettings(e.settings),
        palette |-> e.quantizedData.palette,
        thumbnail |-> ThumbnailData(e)]
  ELSE [indices |-> e.quantizedData.indices,
        settings |-> EffectiveSettings(e.settings)]

\* The timer callback 100 ms after the click, up to the await of
\* zip.generateAsync: the generator is called and, for the STLs, the status
\* becomes 'zipping'.
ExportGenerate ==
  /\ \E e \in a_exports :
       /\ e.stage = "timer"
       /\ a_exports' = (a_exports \ {e}) \cup
                         {[e EXCEPT !.stage = "zipping", !.call = GeneratorCall(e)]}
       /\ processing' = IF e.kind = "stl" THEN "zipping" ELSE processing
  /\ a_last' = "timer"
  /\ UNCHANGED <<a_pc, rawImgSrc, imgSrc, quantizedData, croppedAreaPixels,
                 settings, a_readers, a_crops, a_loads, a_result>>
  /\ UNCHANGED <<a_started, a_downloads, a_failed, a_idleTimers>>
  /\ UNCHANGED <<qvars, svars, mvars, cvars, gvars, wvars>>

\* The rest of the try block once the zip is there: the download, the status
\* 'done', and the timer that makes it 'idle' 3 seconds later.
ExportFinish ==
  /\ \E e \in a_exports :
       /\ e.stage = "zipping"
       /\ a_exports' = a_exports \ {e}
       /\ a_downloads' = a_downloads \cup {e.id}
  /\ processing' = "done"
  /\ a_idleTimers' = a_idleTimers + 1
  /\ a_last' = "export_done"
  /\ UNCHANGED <<a_pc, rawImgSrc, imgSrc, quantizedData, croppedAreaPixels,
                 settings, a_readers, a_crops, a_loads, a_result>>
  /\ UNCHANGED <<a_started, a_failed>>
  /\ UNCHANGED <<qvars, svars, mvars, cvars, gvars, wvars>>

ExportFailSilent ==
  /\ \E e \in a_exports :
       /\ a_exports' = a_exports \ {e}
       /\ a_failed' = a_failed \cup {e.id}
  /\ a_last' = "export_failed"
  /\ UNCHANGED <<a_pc, rawImgSrc, imgSrc, quantizedData, croppedAreaPixels,
                 settings, processing, a_readers, a_crops, a_loads, a_result>>
  /\ UNCHANGED <<a_started, a_downloads, a_idleTimers>>
  /\ UNCHANGED <<qvars, svars, mvars, cvars, gvars, wvars>>

\* The catch block: the generator has thrown in the timer callback (the
\* thumbnail could not be decoded), or zip.generateAsync has rejected.
ExportFail ==
  /\ \E e \in a_exports :
       /\ a_exports' = a_exports \ {e}
       /\ a_failed' = a_failed \cup {e.id}
  /\ processing' = "error"
  /\ a_last' = "export_failed"
  /\ UNCHANGED <<a_pc, rawImgSrc, imgSrc, quantizedData, croppedAreaPixels,
                 settings, a_readers, a_crops, a_loads, a_result>>
  /\ UNCHANGED <<a_started, a_downloads, a_idleTimers>>
  /\ UNCHANGED <<qvars, svars, mvars, cvars, gvars, wvars>>

\* setTimeout(() => setProcessing({ status: 'idle' }), 3000)
IdleTimer ==
  /\ a_idleTimers > 0
  /\ a_idleTimers' = a_idleTimers - 1
  /\ processing' = "idle"
  /\ a_last' = "timer"
  /\ UNCHANGED <<a_pc, rawImgSrc, imgSrc, quantizedData, croppedAreaPixels,
                 settings, a_readers, a_crops, a_loads, a_result>>
  /\ UNCHANGED <<a_exports, a_started, a_downloads, a_failed>>
  /\ UNCHANGED <<qvars, svars, mvars, cvars, gvars, wvars>>

ANext ==
  \/ UploadFile
  \/ ReaderOnload
  \/ OnCropComplete
  \/ CropConfirm
  \/ CropSettle
  \/ CropFail
  \/ Reset
  \/ AdjustCrop
  \/ ImageOnload
  \/ ImageOnloadNoContext
  \/ SetSmoothing

\* The App once an image has been cropped and quantized: the image of the
\* first file, the whole of it.
XInit ==
  /\ c_width = 2 /\ c_height = 2
  /\ a_pc = "mounted" /\ rawImgSrc = Null /\ imgSrc = Crop(1, 1)
  /\ croppedAreaPixels = 1
  /\ settings = DefaultSettings /\ processing = "idle"
  /\ a_readers = {} /\ a_crops = {} /\ a_loads = {} /\ a_last = "load"
  /\ \E outcome \in QuantizeOutcomes :
       /\ outcome.src = imgSrc
       /\ quantizedData = [palette |-> outcome.result.palette,
                           indices |-> outcome.result.indices,
                           rawIndices |-> outcome.result.indices]
       /\ a_result = [src |-> imgSrc, palette |-> outcome.result.palette,
                      indices |-> outcome.result.indices]
  /\ a_exports = {} /\ a_started = 0 /\ a_downloads = {} /\ a_failed = {}
  /\ a_idleTimers = 0

\* The App once a crop has been confirmed and has settled: imgSrc is the new
\* image and the Image of the [imgSrc] effect is loading.
HInit ==
  /\ c_width = 2 /\ c_height = 2
  /\ a_pc = "mounted" /\ rawImgSrc = Null /\ imgSrc = Crop(1, 1)
  /\ croppedAreaPixels = 1
  /\ settings = DefaultSettings /\ processing = "idle"
  /\ a_readers = {} /\ a_crops = {} /\ a_loads = {imgSrc} /\ a_last = "crop"
  /\ quantizedData = NoData /\ a_result = NoData
  /\ a_exports = {} /\ a_started = 0 /\ a_downloads = {} /\ a_failed = {}
  /\ a_idleTimers = 0

\* From there on, with the source image left as it is: the load, the
\* smoothing, mode and height controls, the two downloads and their timers.
HNext ==
  \/ ImageOnload
  \/ SetSmoothing
  \/ SetTactile
  \/ UpdateLayerHeight
  \/ Download3MF
  \/ DownloadSTL
  \/ ExportGenerate
  \/ ExportFinish
  \/ ExportFail
  \/ IdleTimer

\* From there on: the mode and height controls, the two downloads and their
\* timers, and the buttons that take the image away.
XNext ==
  \/ SetTactile
  \/ UpdateLayerHeight
  \/ Download3MF
  \/ DownloadSTL
  \/ ExportGenerate
  \/ ExportFinish
  \/ ExportFail
  \/ IdleTimer
  \/ Reset
  \/ AdjustCrop

\* ------------------------------------------------------------ writeBinarySTL

WMaxBoxes == 2

headerSize == 80
countSize == 4
triangleSize == 50

\* 2^n
RECURSIVE Pow2(_)
Pow2(n) == IF n = 0 THEN 1 ELSE 2 * Pow2(n - 1)

\* new ArrayBuffer(n): n zero bytes.
RECURSIVE ZeroBytes(_)
ZeroBytes(n) ==
  IF n = 0 THEN <<>>
  ELSE LET half == ZeroBytes(n \div 2)
       IN half \o half \o (IF n % 2 = 1 THEN <<0>> ELSE <<>>)

Uint32BE(n) ==
  << (n \div (65536 * 256)) % 256, (n \div 65536) % 256, (n \div 256) % 256,
     n % 256 >>

\* The 4 bytes view.setUint32(offset, n, true) stores: little-endian.
Uint32LE(n) ==
  << n % 256, (n \div 256) % 256, (n \div 65536) % 256,
     (n \div (65536 * 256)) % 256 >>

\* The 2 bytes view.setUint16(offset, n, true) stores.
Uint16LE(n) == << n % 256, (n \div 256) % 256 >>

\* The binary expansion of a / UnitsPerMm, a > 0, carried on until the
\* significand m has 24 bits: a / UnitsPerMm = (m + r / UnitsPerMm) * 2^p.
RECURSIVE Normalize(_, _, _)
Normalize(m, r, p) ==
  IF m >= Pow2(23) THEN [m |-> m, r |-> r, p |-> p]
  ELSE Normalize(2 * m + (IF 2 * r >= UnitsPerMm THEN 1 ELSE 0),
                 (2 * r) % UnitsPerMm, p - 1)

\* The conversion setFloat32 makes of a number v (in 1/UnitsPerMm): the
\* nearest binary32 value, ties to the even significand.  sign, the biased
\* exponent and the 23 fraction bits.
Float32(v) ==
  IF v = 0 THEN [sign |-> 0, exponent |-> 0, fraction |-> 0]
  ELSE LET a == IF v < 0 THEN -v ELSE v
           n == Normalize(a \div UnitsPerMm, a % UnitsPerMm, 0)
           up == \/ 2 * n.r > UnitsPerMm
                 \/ 2 * n.r = UnitsPerMm /\ n.m % 2 = 1
           m == IF up THEN n.m + 1 ELSE n.m
           carry == m = Pow2(24)
       IN [sign |-> IF v < 0 THEN 1 ELSE 0,
           exponent |-> n.p + 150 + (IF carry THEN 1 ELSE 0),
           fraction |-> IF carry THEN 0 ELSE m - Pow2(23)]

\* The 4 bytes writeFloat(view, offset, value) stores: binary32, little-endian.
Float32LE(v) ==
  LET f == Float32(v)
  IN << f.fraction % 256, (f.fraction \div 256) % 256,
        (f.exponent % 2) * 128 + (f.fraction \div 65536),
        f.sign * 128 + (f.exponent \div 2) >>

\* The three coordinates of vertex number idx of the mesh.
VertexBytes(mesh, idx) ==
  Float32LE(mesh.vertices[3 * idx + 1]) \o Float32LE(mesh.vertices[3 * idx + 2])
    \o Float32LE(mesh.vertices[3 * idx + 3])

\* The 50 bytes one turn of the loop stores for the triangle at position i of
\* mesh.triangles: the normal, three vertices, the attribute.
TriangleRecord(mesh, i) ==
  Float32LE(0) \o Float32LE(0) \o Float32LE(0)
    \o VertexBytes(mesh, mesh.triangles[i + 1])
    \o VertexBytes(mesh, mesh.triangles[i + 2])
    \o VertexBytes(mesh, mesh.triangles[i + 3])
    \o Uint16LE(0)

\* The buffer with bytes stored from position offset on.
StoreBytes(buffer, offset, bytes) ==
  SubSeq(buffer, 1, offset) \o bytes
    \o SubSeq(buffer, offset + Len(bytes) + 1, Len(buffer))

\* Boxes of the kind the generators add: the base plate, a run of three
\* pixels of layer 0, and a box of a negative height.
WSampleBoxes ==
  { <<0, 0, 0, BOOKMARK_WIDTH_MM * UnitsPerMm, BOOKMARK_HEIGHT_MM * UnitsPerMm, 8000>>,
    <<1250, 2500, 8000, 3750, 1250, 6000>>,
    <<0, 0, 2000, 1250, 1250, 0 - 4>> }

WIdle ==
  /\ w_pc = "idle" /\ w_mesh = NoData /\ w_buffer = <<>> /\ w_i = 0
  /\ w_offset = 0

\* builder.addBox of a sample box, before the mesh is written.
StlAddBox ==
  /\ w_pc = "idle" /\ m_pc = "open" /\ Len(m_boxes) < WMaxBoxes
  /\ \E box \in WSampleBoxes :
       LET b == AddBox(MBuilder, box[1], box[2], box[3], box[4], box[5], box[6])
       IN /\ m_vertices' = b.vertices
          /\ m_triangles' = b.triangles
          /\ m_vertexMap' = b.vertexMap
          /\ m_boxes' = Append(m_boxes, box)
  /\ UNCHANGED m_pc
  /\ UNCHANGED <<qvars, svars, cvars, gvars, avars, wvars>>

\* A call writeBinarySTL(builder.getData()).
StlCall ==
  /\ w_pc = "idle" /\ m_pc = "open"
  /\ w_mesh' = GetData
  /\ w_pc' = "call"
  /\ UNCHANGED <<w_buffer, w_i, w_offset>>
  /\ UNCHANGED <<qvars, svars, mvars, cvars, gvars, avars>>

\* The buffer is allocated and the triangle count stored behind the header.
StlAllocate ==
  /\ w_pc = "call"
  /\ LET triangleCount == Len(w_mesh.triangles) \div 3
         bufferLength == headerSize + countSize + (triangleCount * triangleSize)
     IN w_buffer' = StoreBytes(ZeroBytes(bufferLength), headerSize,
                               Uint32LE(triangleCount))
  /\ w_offset' = headerSize + countSize
  /\ w_i' = 0
  /\ w_pc' = "loop"
  /\ UNCHANGED w_mesh
  /\ UNCHANGED <<qvars, svars, mvars, cvars, gvars, avars>>

\* One turn of the triangle loop.
StlTriangle ==
  /\ w_pc = "loop" /\ w_i < Len(w_mesh.triangles)
  /\ w_buffer' = StoreBytes(w_buffer, w_offset, TriangleRecord(w_mesh, w_i))
  /\ w_offset' = w_offset + triangleSize
  /\ w_i' = w_i + 3
  /\ UNCHANGED <<w_pc, w_mesh>>
  /\ UNCHANGED <<qvars, svars, mvars, cvars, gvars, avars>>

\* return buffer
StlReturn ==
  /\ w_pc = "loop" /\ w_i >= Len(w_mesh.triangles)
  /\ w_pc' = "done"
  /\ UNCHANGED <<w_mesh, w_buffer, w_i, w_offset>>
  /\ UNCHANGED <<qvars, svars, mvars, cvars, gvars, avars>>

WNext == StlAddBox \/ StlCall \/ StlAllocate \/ StlTriangle \/ StlReturn

\* ----------------------------------------------------------- specifications

CIdle == c_width = 0 /\ c_height = 0

GIdle ==
  /\ g_pc = "idle" /\ g_indices = <<>> /\ g_settings = NoData /\ g_c = 0
  /\ g_y = 0 /\ g_result = <<>> /\ g_kind = "none" /\ g_palette = <<>>
  /\ g_doc = NoData

AIdle ==
  /\ a_pc = "idle" /\ rawImgSrc = Null /\ imgSrc = Null /\ quantizedData = NoData
  /\ croppedAreaPixels = Null /\ settings = NoData /\ processing = "idle"
  /\ a_readers = {} /\ a_crops = {} /\ a_loads = {} /\ a_last = "none"
  /\ a_result = NoData
  /\ a_exports = {} /\ a_started = 0 /\ a_downloads = {} /\ a_failed = {}
  /\ a_idleTimers = 0

\* quantizeImage on its own.
InitQuant == QInit /\ SIdle /\ MIdle /\ CIdle /\ GIdle /\ AIdle /\ WIdle
NextQuant == QNext
SpecQuant == InitQuant /\ [][NextQuant]_vars

\* smoothIndices on its own.
InitSmooth == QIdle /\ SInit /\ MIdle /\ CIdle /\ GIdle /\ AIdle /\ WIdle
NextSmooth == SNext
SpecSmooth == InitSmooth /\ [][NextSmooth]_vars

\* A MeshBuilder on its own.
InitMesh == QIdle /\ SIdle /\ MInit /\ CIdle /\ GIdle /\ AIdle /\ WIdle
NextMesh == MNext
SpecMesh == InitMesh /\ [][NextMesh]_vars

\* generateSTLs on its own.
InitGen == QIdle /\ SIdle /\ MIdle /\ GInit /\ AIdle /\ WIdle
NextGen == GNext
SpecGen == InitGen /\ [][NextGen]_vars

\* The generators called with the App's default heights: where the boxes lie
\* in the plane does not depend on the heights.
InitFootprint == InitGen /\ g_settings = SampleSettings[1]
NextFootprint == GNext
SpecFootprint == InitFootprint /\ [][NextFootprint]_vars

\* writeBinarySTL on the meshes of a MeshBuilder.
InitStl == QIdle /\ SIdle /\ MInit /\ CIdle /\ GIdle /\ AIdle /\ WIdle
NextStl == WNext
SpecStl == InitStl /\ [][NextStl]_vars

\* The App's controls and downloads.
InitExport == QIdle /\ SIdle /\ MIdle /\ GIdle /\ XInit /\ WIdle
NextExport == XNext
SpecExport == InitExport /\ [][NextExport]_vars

\* One source image, from the confirmation of its crop on.
InitHold == QIdle /\ SIdle /\ MIdle /\ GIdle /\ HInit /\ WIdle
NextHold == HNext
SpecHold == InitHold /\ [][NextHold]_vars

\* The downloads of a quantized image together with what else sets the
\* status: Adjust Crop and the confirmation of the new crop, New Project, and
\* the timers.
InitOverlap == InitExport
NextOverlap ==
  \/ Download3MF
  \/ DownloadSTL
  \/ ExportGenerate
  \/ ExportFinish
  \/ ExportFail
  \/ IdleTimer
  \/ Reset
  \/ AdjustCrop
  \/ CropConfirm
  \/ CropSettle
  \/ CropFail
  \/ ImageOnload
SpecOverlap == InitOverlap /\ [][NextOverlap]_vars

\* The App.
InitApp == QIdle /\ SIdle /\ MIdle /\ GIdle /\ AInit /\ WIdle
NextApp == ANext
SpecApp == InitApp /\ [][NextApp]_vars

\* ------------------------------------------------------------------- claims

\* C1: for a raster of at least one pixel, quantizeImage(ctx, 4) returns an
\* index map of width * height entries, each in 0..3, and a palette of exactly
\* 4 entries.
C1_QuantizeShape ==
  q_pc = "done" =>
    /\ Len(q_indices) = q_width * q_height
    /\ \A i \in DOMAIN q_indices : q_indices[i] \in 0..3
    /\ Len(q_palette) = 4
    /\ \A j \in DOMAIN q_palette :
         q_palette[j].r \in 0..255 /\ q_palette[j].g \in 0..255
           /\ q_palette[j].b \in 0..255

\* A finished call on several pixels that uses more than one index.
C1_Witness ==
  /\ q_pc = "done"
  /\ q_width * q_height >= 2
  /\ \E i \in DOMAIN q_indices : q_indices[i] = 1

\* C2: in the returned index map, index 0 has at least as many pixels as index
\* 1, index 1 at least as many as index 2, index 2 at least as many as index 3,
\* whatever the raster and the random seeding.
C2_CountsDescend ==
  q_pc = "done" =>
    \A i \in 0..2 : CountOf(q_indices, i) >= CountOf(q_indices, i + 1)

\* A finished call whose first two indices have different, non-zero counts.
C2_Witness ==
  /\ q_pc = "done"
  /\ CountOf(q_indices, 0) > CountOf(q_indices, 1)
  /\ CountOf(q_indices, 1) > 0

\* C3 as claimed: every pixel's own palette entry is at least as near to it as
\* every other entry of the returned (medoid-substituted) palette.
C3_NearestPaletteColor ==
  q_pc = "done" =>
    \A p \in DOMAIN q_data : \A j \in DOMAIN q_palette :
      getDistanceSq(q_data[p], q_palette[q_indices[p] + 1])
        <= getDistanceSq(q_data[p], q_palette[j])

\* C3, amended: every pixel is assigned to the cluster whose centroid was the
\* nearest in the last assignment pass of the refinement (the rounded cluster
\* means, before the medoid substitution and the renumbering); the palette
\* entry of a populated index is the colour of one of the pixels that carry it.
C3_NearestCentroid ==
  q_pc = "done" =>
    /\ \A p \in DOMAIN q_data : \A j \in DOMAIN q_seen :
         getDistanceSq(q_data[p], q_seen[q_order[q_indices[p] + 1] + 1])
           <= getDistanceSq(q_data[p], q_seen[j])
    /\ \A p \in DOMAIN q_data : \E o \in DOMAIN q_data :
         q_indices[o] = q_indices[p] /\ q_data[o] = q_palette[q_indices[p] + 1]

\* A finished call in which a pixel is nearer to another palette entry than to
\* its own.
C3_Witness ==
  /\ q_pc = "done"
  /\ \E p \in DOMAIN q_data : \E j \in DOMAIN q_palette :
       getDistanceSq(q_data[p], q_palette[j])
         < getDistanceSq(q_data[p], q_palette[q_indices[p] + 1])

\* C4: on a raster whose pixels all have one colour c, quantizeImage returns a
\* palette whose 4 entries all equal c, whatever the random seeding.
C4_UniformPalette ==
  (q_pc = "done" /\ \A p \in DOMAIN q_data : q_data[p] = q_data[1]) =>
    /\ Len(q_palette) = 4
    /\ \A j \in DOMAIN q_palette : q_palette[j] = q_data[1]

\* A finished call on several pixels of one colour.
C4_Witness ==
  /\ q_pc = "done"
  /\ Len(q_data) >= 2
  /\ \A p \in DOMAIN q_data : q_data[p] = q_data[1]

\* A coordinate outside 0..n-1 replaced by the nearest edge coordinate.
EdgeCoord(v, n) == IF v < 0 THEN 0 ELSE IF v > n - 1 THEN n - 1 ELSE v

\* How many of the 9 samples around pixel (x, y) of map hold value v.
SampleCount(map, x, y, width, height, v) ==
  Cardinality({d \in {-1, 0, 1} \X {-1, 0, 1} :
     map[EdgeCoord(y + d[2], height) * width + EdgeCoord(x + d[1], width) + 1] = v})

\* C5: one smoothing pass sets every pixel to the index value that occurs most
\* often among the 9 samples of its 3x3 neighbourhood, neighbour coordinates
\* clamped into the image; among the values that tie for the highest count the
\* lowest wins.
C5_PassIsMajority ==
  (s_pc \in {"loop", "done"} /\ s_p >= 1) =>
    \A pos \in DOMAIN s_current :
      LET x == (pos - 1) % s_width
          y == (pos - 1) \div s_width
          v == s_current[pos]
      IN /\ v \in 0..3
         /\ \A u \in 0..3 :
              /\ SampleCount(s_prev, x, y, s_width, s_height, u)
                   <= SampleCount(s_prev, x, y, s_width, s_height, v)
              /\ u < v => SampleCount(s_prev, x, y, s_width, s_height, u)
                            < SampleCount(s_prev, x, y, s_width, s_height, v)

\* A pass that changed a pixel to the lower of two values tied for the highest
\* count.
C5_Witness ==
  /\ s_pc = "loop" /\ s_p >= 1
  /\ \E pos \in DOMAIN s_current : \E u \in 0..3 :
       /\ s_current[pos] < u
       /\ s_prev[pos] = u
       /\ SampleCount(s_prev, (pos - 1) % s_width, (pos - 1) \div s_width,
                      s_width, s_height, u)
            = SampleCount(s_prev, (pos - 1) % s_width, (pos - 1) \div s_width,
                          s_width, s_height, s_current[pos])

\* C6: smoothIndices with passes = 0 returns a map equal, element by element,
\* to its input map.
C6_ZeroPassesIdentity ==
  (s_pc = "done" /\ s_passes = 0) =>
    /\ Len(s_result) = Len(s_indices)
    /\ \A pos \in DOMAIN s_indices : s_result[pos] = s_indices[pos]

\* A finished call with passes = 0 on a map that one pass would change.
C6_Witness ==
  /\ s_pc = "done" /\ s_passes = 0
  /\ s_width >= 2 /\ s_height >= 2
  /\ \E pos \in DOMAIN s_indices :
       \E u \in 0..3 :
         SampleCount(s_indices, (pos - 1) % s_width, (pos - 1) \div s_width,
                     s_width, s_height, u)
           > SampleCount(s_indices, (pos - 1) % s_width, (pos - 1) \div s_width,
                         s_width, s_height, s_indices[pos])

\* C7: for every width >= 1 and height >= 1 and every pass count,
\* smoothIndices reads only positions 0..width*height-1 of the map; every
\* pixel, a corner's included, comes out as one index value; on a 1x1 image
\* the pixel keeps its value.
C7_ReadsInRange ==
  /\ \A pos \in s_reads : pos >= 0 /\ pos <= s_width * s_height - 1
  /\ s_pc = "done" =>
       /\ Len(s_result) = s_width * s_height
       /\ \A pos \in DOMAIN s_result : s_result[pos] \in 0..3
       /\ (s_width = 1 /\ s_height = 1) => s_result = s_indices

\* A finished call of at least one pass on an image of two rows and columns
\* whose first corner alone differs from the other pixels, and came out as
\* their value.
C7_Witness ==
  /\ s_pc = "done" /\ s_passes >= 1
  /\ s_width >= 2 /\ s_height >= 2
  /\ \A pos \in DOMAIN s_indices : pos > 1 => s_indices[pos] = s_indices[2]
  /\ s_indices[1] # s_indices[2]
  /\ s_result[1] = s_indices[2]
  /\ s_reads = 0..(s_width * s_height - 1)

\* C8: after a change of settings.smoothing on a loaded image, to the value
\* s, the stored quantizedData.indices is smoothIndices(rawIndices,
\* CANVAS_WIDTH, CANVAS_HEIGHT, s), where rawIndices is the map the quantizer
\* returned for the image: every change smooths the raw map, never a map
\* that was smoothed before.
C8_SmoothedFromRaw ==
  (a_last = "smoothing" /\ quantizedData # NoData) =>
    /\ quantizedData.rawIndices = a_result.indices
    /\ quantizedData.palette = a_result.palette
    /\ quantizedData.indices =
         smoothIndices(a_result.indices, c_width, c_height, settings.smoothing)

\* The smoothing was changed away from its first value and back, on a loaded
\* image whose map the passes change.
C8_Witness ==
  /\ a_last = "smoothing" /\ quantizedData # NoData
  /\ settings.smoothing = DefaultSettings.smoothing
  /\ quantizedData.indices # quantizedData.rawIndices

\* C9: after any sequence of addBox calls on a MeshBuilder, every entry of
\* the triangle index sequence is at least 0 and below vertices.length / 3,
\* and the length of the triangle sequence is a multiple of 3.
C9_TriangleIndicesValid ==
  m_pc = "open" =>
    /\ Len(m_triangles) % 3 = 0
    /\ Len(m_vertices) % 3 = 0
    /\ \A t \in DOMAIN m_triangles :
         m_triangles[t] >= 0 /\ m_triangles[t] < Len(m_vertices) \div 3

\* Two boxes added, the second sharing the four corners of a face with the
\* first.
C9_Witness ==
  /\ m_pc = "open" /\ Len(m_boxes) = 2
  /\ Len(m_triangles) = 72
  /\ Len(m_vertices) = 36
  /\ \E t \in 37..72 : m_triangles[t] < 8
  /\ \E t \in 37..72 : m_triangles[t] >= 8

\* The vertex indices the 12 triangles of the i-th box of the builder name.
BoxIndices(i) == {m_triangles[t] : t \in ((i - 1) * 36 + 1)..(i * 36)}

\* C10 (as stated): in every layer of generateSTLs every emitted box adds 12
\* triangles that name 8 distinct vertex indices, and the builder holds at
\* most 8 vertices per box emitted.
C10_EveryBoxEightVertices ==
  m_pc = "open" =>
    /\ Len(m_triangles) = 36 * Len(m_boxes)
    /\ Len(m_vertices) \div 3 <= 8 * Len(m_boxes)
    /\ \A i \in DOMAIN m_boxes : Cardinality(BoxIndices(i)) = 8

\* C10 (amended): in every layer of generateSTLs every emitted box adds 12
\* triangles and the builder holds at most 8 vertices per box emitted; the 12
\* triangles of a box name 8 distinct vertex indices when its bottom z and
\* its top z differ in their 3-decimal form, and only 4 when they do not (a
\* layer or base height of zero or of less than half a thousandth).
C10_BoxShell ==
  m_pc = "open" =>
    /\ Len(m_triangles) = 36 * Len(m_boxes)
    /\ Len(m_vertices) \div 3 <= 8 * Len(m_boxes)
    /\ \A i \in DOMAIN m_boxes :
         Cardinality(BoxIndices(i)) =
           IF ToFixed3(m_boxes[i][3]) # ToFixed3(m_boxes[i][3] + m_boxes[i][6])
           THEN 8 ELSE 4

\* A finished layer of two boxes or more, one of them a shell of 8 vertices
\* and one of them flattened to 4.
C10_Witness ==
  /\ g_pc = "rows" /\ g_y = c_height /\ Len(m_boxes) >= 2
  /\ Len(m_triangles) = 36 * Len(m_boxes)
  /\ \E i \in DOMAIN m_boxes : Cardinality(BoxIndices(i)) = 8
  /\ \E i \in DOMAIN m_boxes : Cardinality(BoxIndices(i)) = 4

\* The maximal horizontal runs of value c in the rows before row `rows` of
\* map: <<y, first, end>> with columns first..end-1 of row y all c, and no c
\* next to them on either side.
MaximalRuns(map, c, rows) ==
  {t \in (0..(rows - 1)) \X (0..(c_width - 1)) \X (1..c_width) :
     /\ t[2] < t[3]
     /\ \A x \in t[2]..(t[3] - 1) : map[t[1] * c_width + x + 1] = c
     /\ t[2] = 0 \/ map[t[1] * c_width + t[2]] # c
     /\ t[3] = c_width \/ map[t[1] * c_width + t[3] + 1] # c}

\* The addBox calls of the layer under way, the base plate's left out.
RunBoxesSoFar == IF g_c = 0 THEN Tail(m_boxes) ELSE m_boxes

\* C11: in generateSTLs and generate3MF the boxes of slot c, the base plate
\* aside, are exactly one per maximal horizontal run of pixels equal to c in
\* each row scanned: the box of a run sits at the run's first column and
\* row, is as wide as the run and one row high; runs of adjacent rows are not
\* merged.
C11_OneBoxPerRun ==
  g_pc = "rows" =>
    /\ Len(RunBoxesSoFar) = Cardinality(MaximalRuns(g_indices, g_c, g_y))
    /\ \A t \in MaximalRuns(g_indices, g_c, g_y) :
         Cardinality({i \in DOMAIN RunBoxesSoFar :
            /\ RunBoxesSoFar[i][1] = t[2] * scaleX
            /\ RunBoxesSoFar[i][2] = (c_height - 1 - t[1]) * scaleY
            /\ RunBoxesSoFar[i][4] = (t[3] - t[2]) * scaleX
            /\ RunBoxesSoFar[i][5] = scaleY}) = 1

\* A layer above the base on a canvas of 2 x 2 pixels that are all of its
\* slot: two full rows, a stripe of two rows, and two boxes.
C11_Witness ==
  /\ g_pc = "rows" /\ g_y = c_height /\ g_c = 1
  /\ c_width = 2 /\ c_height = 2
  /\ \A p \in DOMAIN g_indices : g_indices[p] = 1
  /\ Len(m_boxes) = 2

\* A box over the whole physical footprint, whatever its z extent.
FullFootprint(box) ==
  /\ box[1] = 0 /\ box[2] = 0
  /\ box[4] = BOOKMARK_WIDTH_MM * UnitsPerMm
  /\ box[5] = BOOKMARK_HEIGHT_MM * UnitsPerMm

\* C12: the mesh of slot 0 always starts with one box over the whole physical
\* width and height from z = 0 up to the base-plate thickness, whatever the
\* index map holds; the boxes of slots 1..3 are one row high and start at the
\* base-plate thickness, so on a canvas of more than one row none of them has
\* the full footprint, and slot 0 has exactly one such box.
C12_BasePlateOnlySlot0 ==
  g_pc = "rows" =>
    /\ g_c = 0 =>
         /\ Len(m_boxes) >= 1
         /\ FullFootprint(m_boxes[1])
         /\ m_boxes[1][3] = 0 /\ m_boxes[1][6] = g_settings.baseHeight
         /\ c_height > 1 =>
              Cardinality({i \in DOMAIN m_boxes : FullFootprint(m_boxes[i])}) = 1
    /\ g_c # 0 =>
         \A i \in DOMAIN m_boxes :
            /\ m_boxes[i][5] = scaleY
            /\ m_boxes[i][3] = g_settings.baseHeight
            /\ c_height > 1 => ~FullFootprint(m_boxes[i])

\* Slot 0 finished on a map without any pixel of index 0: the base plate is
\* its only box, and its thickness is not the height of layer 0.
C12_Witness ==
  /\ g_pc = "rows" /\ g_y = c_height /\ g_c = 0 /\ c_height > 1
  /\ \A p \in DOMAIN g_indices : g_indices[p] # 0
  /\ Len(m_boxes) = 1
  /\ g_settings.baseHeight # g_settings.layerHeights[1]

\* The slots a call has to return: slot 0, whose base plate is always there,
\* and every other slot that some pixel of the index map carries.
PopulatedSlots ==
  {0} \cup {c \in 1..3 : \E p \in DOMAIN g_indices : g_indices[p] = c}

\* C13: generateSTLs returns, without raising, one entry per populated layer
\* and none for a layer without triangles: 'Color_1_Base.stl' for slot 0 and
\* 'Color_<c+1>.stl' for a slot c of 1..3 exactly when some pixel equals c;
\* generate3MF makes layer objects of exactly the same slots.
C13_PopulatedLayersOnly ==
  g_pc = "done" =>
    /\ Len(g_result) = Cardinality(PopulatedSlots)
    /\ \A i \in DOMAIN g_result : Len(g_result[i].data.triangles) > 0
    /\ g_kind = "stl" =>
         {g_result[i].name : i \in DOMAIN g_result} =
           {IF c = 0 THEN <<"Color_", 1, "_Base", ".stl">>
                     ELSE <<"Color_", c + 1, "", ".stl">> : c \in PopulatedSlots}
    /\ g_kind = "3mf" =>
         {g_result[i].paletteIdx : i \in DOMAIN g_result} = PopulatedSlots

\* generateSTLs has returned for a map whose pixels are all of slot 2: two
\* entries, the layers of slots 1 and 3 left out.
C13_Witness ==
  /\ g_pc = "done" /\ g_kind = "stl"
  /\ \A p \in DOMAIN g_indices : g_indices[p] = 2
  /\ Len(g_result) = 2
  /\ g_result[2].name = <<"Color_", 3, "", ".stl">>

\* The ids of the layer objects of the model document.
LayerObjectIds == {g_doc.objects[i].id : i \in DOMAIN g_doc.objects}

\* C15: in the model document of generate3MF the layer objects (1 to 4 of
\* them) have distinct ids in 1..4, the assembly object has id 100 and the
\* base-materials resource id 200, so no two resources share an id; the
\* components and the build item name those ids.
C15_ResourceIdsDistinct ==
  (g_kind = "3mf" /\ g_pc = "done") =>
    /\ Len(g_doc.objects) \in 1..4
    /\ Cardinality(LayerObjectIds) = Len(g_doc.objects)
    /\ LayerObjectIds \subseteq 1..4
    /\ g_doc.assembly.id = 100
    /\ g_doc.basematerials.id = 200
    /\ Cardinality(LayerObjectIds \cup {g_doc.assembly.id, g_doc.basematerials.id})
         = Len(g_doc.objects) + 2
    /\ {g_doc.assembly.components[i] : i \in DOMAIN g_doc.assembly.components}
         = LayerObjectIds
    /\ g_doc.build = <<g_doc.assembly.id>>
    /\ \A i \in DOMAIN g_doc.objects : g_doc.objects[i].pid = g_doc.basematerials.id

\* A model document with all four layers populated.
C15_Witness ==
  /\ g_kind = "3mf" /\ g_pc = "done"
  /\ Len(g_doc.objects) = 4
  /\ LayerObjectIds = 1..4

\* The j-th populated slot in ascending order.
SlotOf(j) ==
  CHOOSE c \in PopulatedSlots :
    Cardinality({d \in PopulatedSlots : d < c}) = j - 1

\* C16: the base-materials table of the model document has one entry per
\* palette slot, in palette order, each the slot's colour at full opacity; the
\* layer objects are those of the populated slots in ascending order, and
\* every triangle of the object of slot c has material index c, also when a
\* slot below c is left out.
C16_LayerBoundToOwnSlot ==
  (g_kind = "3mf" /\ g_pc = "done") =>
    /\ Len(g_doc.basematerials.bases) = Len(g_palette)
    /\ \A i \in DOMAIN g_palette :
         /\ g_doc.basematerials.bases[i].name = <<"Color ", i>>
         /\ g_doc.basematerials.bases[i].displaycolor =
              << "#", g_palette[i].r \div 16, g_palette[i].r % 16,
                 g_palette[i].g \div 16, g_palette[i].g % 16,
                 g_palette[i].b \div 16, g_palette[i].b % 16, 15, 15 >>
    /\ Len(g_doc.objects) = Cardinality(PopulatedSlots)
    /\ \A j \in DOMAIN g_doc.objects :
         /\ g_doc.objects[j].id = SlotOf(j) + 1
         /\ Len(g_doc.objects[j].triangles) > 0
         /\ \A t \in DOMAIN g_doc.objects[j].triangles :
              g_doc.objects[j].triangles[t].p1 = SlotOf(j)

\* A model document for a map with pixels of slot 2 and none of slot 1: the
\* second object is the one of slot 2 and its triangles carry index 2.
C16_Witness ==
  /\ g_kind = "3mf" /\ g_pc = "done"
  /\ \E p \in DOMAIN g_indices : g_indices[p] = 2
  /\ \A p \in DOMAIN g_indices : g_indices[p] # 1
  /\ Len(g_doc.objects) >= 2
  /\ g_doc.objects[2].triangles[1].p1 = 2

\* Reading the bytes back: the little-endian uint32 at an offset.
ParseUint32(buffer, offset) ==
  buffer[offset + 1] + 256 * buffer[offset + 2] + 65536 * buffer[offset + 3]
    + (65536 * 256) * buffer[offset + 4]

\* Reading the bytes back: the sign, biased exponent and fraction bits of the
\* little-endian binary32 at an offset.
ParseFloat32(buffer, offset) ==
  [sign |-> buffer[offset + 4] \div 128,
   exponent |-> (buffer[offset + 4] % 128) * 2 + buffer[offset + 3] \div 128,
   fraction |-> (buffer[offset + 3] % 128) * 65536 + buffer[offset + 2] * 256
                  + buffer[offset + 1]]

\* A binary32 f of magnitude below 2^19 is m * 2^(-s) with m its 24-bit
\* significand: whole(f) is its integer part, part(f) the numerator of the
\* rest over 2^s.
F32Shift(f) == 150 - f.exponent
F32Whole(f) ==
  IF F32Shift(f) >= 24 THEN 0 ELSE (f.fraction + Pow2(23)) \div Pow2(F32Shift(f))
F32Part(f) ==
  IF F32Shift(f) >= 24 THEN f.fraction + Pow2(23)
  ELSE (f.fraction + Pow2(23)) % Pow2(F32Shift(f))

\* The number f stands for is exactly v / UnitsPerMm: the rest times 625
\* equals the rest of v times 2^(s - 4), 625 * 2^4 being UnitsPerMm.
F32Exactly(f, v) ==
  IF f.exponent = 0 /\ f.fraction = 0 THEN v = 0
  ELSE LET a == IF v < 0 THEN -v ELSE v
           t == F32Shift(f) - 4
       IN /\ v # 0 /\ f.sign = (IF v < 0 THEN 1 ELSE 0)
          /\ f.exponent \in 1..254
          /\ t \in 0..23
          /\ F32Whole(f) = a \div UnitsPerMm
          /\ F32Part(f) % Pow2(t) = 0
          /\ (F32Part(f) \div Pow2(t)) * 625 = a % UnitsPerMm

\* The number f stands for, rounded to the nearest 1 / UnitsPerMm (halves
\* away from zero).  part * 625 / 2^(s - 4) is taken in two halves of 12 bits
\* to stay within 32-bit integers.
F32Rounded(f) ==
  IF f.exponent = 0 /\ f.fraction = 0 THEN 0
  ELSE LET t == F32Shift(f) - 4
           part == F32Part(f)
           c == (part \div 4096) * 625 + ((part % 4096) * 625) \div 4096
           low == ((part % 4096) * 625) % 4096
           u == t - 12
           rest == IF t < 12 THEN (part * 625 + Pow2(t - 1)) \div Pow2(t)
                   ELSE IF u = 0 THEN c + (IF low >= 2048 THEN 1 ELSE 0)
                   ELSE IF u > 30 THEN 0
                   ELSE c \div Pow2(u)
                          + (IF c % Pow2(u) >= Pow2(u - 1) THEN 1 ELSE 0)
           a == F32Whole(f) * UnitsPerMm + rest
       IN IF f.sign = 1 THEN -a ELSE a

\* The number of triangles of the mesh being written.
StlTriangleCount == Len(w_mesh.triangles) \div 3

\* Coordinate co (0..2) of vertex n (0..2) of triangle j (from 0) of the
\* mesh, and the binary32 read back from its place in record j.
MeshCoord(j, n, co) ==
  w_mesh.vertices[3 * w_mesh.triangles[3 * j + n + 1] + co + 1]
StlCoord(j, n, co) == ParseFloat32(w_buffer, 84 + 50 * j + 12 + 12 * n + 4 * co)

\* The layout of the returned bytes: 80 header bytes, the count, and for
\* every triangle a record of 50 bytes with a zero normal and a zero
\* attribute.
StlLayout ==
  /\ Len(w_buffer) = 80 + 4 + 50 * StlTriangleCount
  /\ ParseUint32(w_buffer, 80) = StlTriangleCount
  /\ \A j \in 0..(StlTriangleCount - 1) :
       /\ \A b \in 1..12 : w_buffer[84 + 50 * j + b] = 0
       /\ w_buffer[84 + 50 * j + 49] = 0 /\ w_buffer[84 + 50 * j + 50] = 0

\* C14 as stated: the bytes of writeBinarySTL are 80 header bytes, the
\* little-endian count T and T records of 50 bytes, and the vertex
\* coordinates read back from record i are exactly the coordinates of the
\* three vertices of triangle i.
C14_RoundTripExact ==
  w_pc = "done" =>
    /\ StlLayout
    /\ \A j \in 0..(StlTriangleCount - 1) : \A n \in 0..2 : \A co \in 0..2 :
         F32Exactly(StlCoord(j, n, co), MeshCoord(j, n, co))

\* C14, amended: the layout is as stated, and the coordinates read back from
\* record i are binary32 numbers that round to the coordinates of the three
\* vertices of triangle i at 4 decimals: the originals within float32
\* precision, in emission order.
C14_RoundTripFloat32 ==
  w_pc = "done" =>
    /\ StlLayout
    /\ \A j \in 0..(StlTriangleCount - 1) : \A n \in 0..2 : \A co \in 0..2 :
         /\ F32Rounded(StlCoord(j, n, co)) = MeshCoord(j, n, co)
         /\ StlCoord(j, n, co) = Float32(MeshCoord(j, n, co))

\* A written mesh of two boxes, 24 triangles, one of whose coordinates is
\* 0.8 mm, which is not a binary32 number.
C14_Witness ==
  /\ w_pc = "done" /\ StlTriangleCount = 24
  /\ Len(w_buffer) = 1284
  /\ \E i \in DOMAIN w_mesh.vertices : w_mesh.vertices[i] = 8000
  /\ ~F32Exactly(Float32(8000), 8000)

\* C19: when the 2D context of the raster is not available at the
\* quantization step, the step ends with an error that is reported (the
\* status 'error', as the catch blocks of the App report failures) and stores
\* no palette and no index map of its own.
C19_NoContextFailsLoudly ==
  a_last = "load_no_context" =>
    /\ processing = "error"
    /\ quantizedData # NoData =>
         /\ a_result # NoData
         /\ quantizedData.palette = a_result.palette
         /\ quantizedData.rawIndices = a_result.indices

\* C20: whenever quantized data are stored, also right after a new image
\* has been quantized, quantizedData.indices is smoothIndices(rawIndices,
\* CANVAS_WIDTH, CANVAS_HEIGHT, settings.smoothing) for the current smoothing
\* value.
C20_SmoothedAfterQuantize ==
  quantizedData # NoData =>
    quantizedData.indices =
      smoothIndices(quantizedData.rawIndices, c_width, c_height,
                    settings.smoothing)

\* C17: in both download handlers the generator gets, for the settings of
\* the handler's render, the height 0.2 for all 4 layers when isTactile is
\* false, whatever the heights entered, and settings.layerHeights itself when
\* it is true; no step of an export changes the stored settings.
C17_FlatOverridesHeights ==
  /\ [](\A e \in a_exports :
          e.stage = "zipping" =>
            /\ e.call.settings.layerHeights =
                 IF e.settings.isTactile THEN e.settings.layerHeights
                 ELSE <<2000, 2000, 2000, 2000>>
            /\ e.call.settings.baseHeight = e.settings.baseHeight
            /\ e.call.indices = e.quantizedData.indices)
  /\ [][(a_exports' # a_exports \/ a_idleTimers' # a_idleTimers) =>
          settings' = settings]_vars

\* A generator call in flat mode after the height of a slot was moved in
\* tactile mode: the call has 0.2 four times, the stored heights are the ones
\* entered.
C17_Witness ==
  \E e \in a_exports :
    /\ e.stage = "zipping"
    /\ ~e.settings.isTactile
    /\ e.settings.layerHeights # DefaultSettings.layerHeights
    /\ e.call.settings.layerHeights = <<2000, 2000, 2000, 2000>>
    /\ settings.layerHeights = e.settings.layerHeights

\* C18: an export whose generation or packaging fails ends in the status
\* 'error'; it hands no file to the browser, then or later, and it is not
\* started again: every export started is under way, downloaded or failed,
\* and never two of these.
C18_FailureSurfaced ==
  /\ a_last = "export_failed" => processing = "error"
  /\ a_failed \cap a_downloads = {}
  /\ \A e \in a_exports : e.id \notin a_failed /\ e.id \notin a_downloads
  /\ Cardinality(a_exports) + Cardinality(a_downloads) + Cardinality(a_failed)
       = a_started

\* The first export has failed: the status is 'error' and nothing was
\* downloaded.
C18_Witness ==
  /\ a_last = "export_failed" /\ processing = "error"
  /\ a_failed = {1} /\ a_downloads = {} /\ a_exports = {}

\* The z coordinates of the vertices that the triangles of the i-th box of
\* the builder name.
BoxZs(i) == {m_vertices[3 * v + 3] : v \in BoxIndices(i)}

\* The per-run boxes of the layer being built: every box but the base plate.
RunBoxNumbers == {i \in DOMAIN m_boxes : ~(g_c = 0 /\ i = 1)}

RECURSIVE RowBoxesFrom(_, _)
RowBoxesFrom(c, y) ==
  IF y >= c_height THEN <<>>
  ELSE RowBoxes(g_indices, g_settings, c, y) \o RowBoxesFrom(c, y + 1)

\* The per-run boxes of layer c of the call: those the builder holds for the
\* layer just built, those the row loops add for the other layers.
LayerRunBoxes(c) ==
  IF c = g_c THEN [i \in 1..Cardinality(RunBoxNumbers) |->
                     m_boxes[i + Len(m_boxes) - Cardinality(RunBoxNumbers)]]
  ELSE RowBoxesFrom(c, 0)

\* The pixels (x, y) of the canvas whose square of the model plane lies in
\* the footprint of box: pixel (x, y) is the square at column x of the
\* flipped row CANVAS_HEIGHT - 1 - y.
PixelsUnder(box) ==
  {px \in (0..(c_width - 1)) \X (0..(c_height - 1)) :
     /\ box[1] <= px[1] * scaleX
     /\ (px[1] + 1) * scaleX <= box[1] + box[4]
     /\ box[2] = (c_height - 1 - px[2]) * scaleY
     /\ box[5] = scaleY}

\* The footprint of box is a row of whole pixels.
OnPixelGrid(box) ==
  /\ \E x \in 0..(c_width - 1) : box[1] = x * scaleX
  /\ \E n \in 1..c_width : box[4] = n * scaleX
  /\ \E y \in 0..(c_height - 1) : box[2] = y * scaleY
  /\ box[5] = scaleY

\* C25: the footprints of the per-run boxes of the 4 layers partition the
\* canvas: every pixel (x, y) is covered by exactly one run box, that box
\* belongs to the layer of the pixel's own index and lies at the flipped row
\* CANVAS_HEIGHT - 1 - y, and no two run boxes, of the same or of different
\* layers, overlap in footprint.
C25_RunBoxesPartitionCanvas ==
  (g_pc = "rows" /\ g_y = c_height) =>
    LET boxes == Array([l \in 1..4 |-> LayerRunBoxes(l - 1)])
        under == Array([l \in 1..4 |->
                   Array([i \in 1..Len(boxes[l]) |-> PixelsUnder(boxes[l][i])])])
        all == {b \in (1..4) \X (1..(c_width * c_height)) :
                  b[2] <= Len(boxes[b[1]])}
    IN /\ \A b \in all : OnPixelGrid(boxes[b[1]][b[2]])
       /\ \A px \in (0..(c_width - 1)) \X (0..(c_height - 1)) :
            LET over == {b \in all : px \in under[b[1]][b[2]]}
            IN /\ Cardinality(over) = 1
               /\ \A b \in over :
                    b[1] - 1 = g_indices[px[2] * c_width + px[1] + 1]
       /\ \A b \in all : \A d \in all :
            b # d => under[b[1]][b[2]] \cap under[d[1]][d[2]] = {}

\* A finished layer 2 on a canvas of two rows that differ, with a run of two
\* pixels of layer 2 in the first row and pixels of two other layers.
C25_Witness ==
  /\ g_pc = "rows" /\ g_y = c_height /\ g_c = 2
  /\ c_width = 2 /\ c_height = 2
  /\ g_indices = <<2, 2, 0, 3>>
  /\ Len(m_boxes) = 1
  /\ PixelsUnder(m_boxes[1]) = {<<0, 0>>, <<1, 0>>}

\* n successive calls of smoothIndices with one pass each, the first on map.
RECURSIVE SinglePasses(_, _, _, _)
SinglePasses(map, width, height, n) ==
  IF n <= 0 THEN map
  ELSE smoothIndices(SinglePasses(map, width, height, n - 1), width, height, 1)

\* C23: smoothIndices applies its passes one after the other, each on the
\* output of the one before: smoothIndices(smoothIndices(m, N), M) equals
\* smoothIndices(m, N + M), and smoothIndices(m, N) equals N successive
\* single-pass applications.  Stated of the call under way: after p rounds
\* current is smoothIndices(m, p); what the call returns for N + M passes is
\* what M passes make of the result of N, and what as many calls with one
\* pass make of m.
C23_PassesCompose ==
  /\ s_pc = "loop" =>
       s_current = smoothIndices(s_indices, s_width, s_height, s_p)
  /\ s_pc = "done" =>
       /\ s_result = SinglePasses(s_indices, s_width, s_height, s_passes)
       /\ \A N \in 0..s_passes :
            smoothIndices(smoothIndices(s_indices, s_width, s_height, N),
                          s_width, s_height, s_passes - N) = s_result

\* A call with two passes has returned, and each of the two passes changed
\* the map it was given.
C23_Witness ==
  /\ s_pc = "done" /\ s_passes = 2
  /\ smoothIndices(s_indices, s_width, s_height, 1) # s_indices
  /\ s_result # smoothIndices(s_indices, s_width, s_height, 1)

\* C24 (as stated): for every pass count including 0, smoothIndices returns
\* a new Index Map, a different array from its input, so that no later write
\* to either map can affect the other.
C24_ResultIsNewArray ==
  s_pc = "done" => s_ref.result # s_ref.indices

\* C27 (as stated): whenever quantizedData is non-null, imgSrc is non-null
\* and quantizedData was computed from that current imgSrc: a late load
\* callback of an earlier image never repopulates or overwrites
\* quantizedData after a reset or after a newer image was confirmed.
C27_DataOfCurrentImage ==
  quantizedData # NoData =>
    /\ imgSrc # Null
    /\ a_result # NoData
    /\ a_result.src = imgSrc
    /\ quantizedData.palette = a_result.palette
    /\ quantizedData.rawIndices = a_result.indices

\* C26 (as stated): at most one export generation (3MF or STL) is in flight
\* at any time, and the status is not 'idle' while an export is still
\* running, in every interleaving of download clicks, crop confirmation,
\* reset, the 100 ms start timer and the 3-second timer of an earlier export.
C26_OneExportInFlight ==
  /\ Cardinality(a_exports) <= 1
  /\ a_exports # {} => processing # "idle"

\* C21: between two changes of the source image the palette and the raw
\* index map held in quantizedData are never modified and quantizeImage is
\* not invoked again, under any sequence of smoothing changes, height or
\* mode changes, preview redraws and exports: once the image's load has
\* stored them, they are what that one quantizeImage call returned and no
\* load is left to call it again, and no step of the smoothing, mode and
\* height controls, of a download or of a timer changes them, the result of
\* the last quantizeImage call, or the loads under way.
C21_QuantizedOncePerImage ==
  /\ [](quantizedData # NoData =>
          /\ a_loads = {}
          /\ a_result # NoData /\ a_result.src = imgSrc
          /\ quantizedData.palette = a_result.palette
          /\ quantizedData.rawIndices = a_result.indices)
  /\ [][a_last' \in {"smoothing", "settings", "download", "timer",
                     "export_done", "export_failed"} =>
          /\ a_result' = a_result /\ a_loads' = a_loads /\ imgSrc' = imgSrc
          /\ (quantizedData = NoData) = (quantizedData' = NoData)
          /\ quantizedData # NoData =>
               /\ quantizedData'.palette = quantizedData.palette
               /\ quantizedData'.rawIndices = quantizedData.rawIndices]_vars

\* An export has finished in tactile mode with a height changed, after the
\* smoothing was changed to a value that alters the map.
C21_Witness ==
  /\ a_last = "export_done" /\ a_downloads # {}
  /\ quantizedData # NoData
  /\ quantizedData.indices # quantizedData.rawIndices
  /\ settings.smoothing # DefaultSettings.smoothing
  /\ settings.isTactile
  /\ settings.layerHeights # DefaultSettings.layerHeights

====
